---- MODULE Spec2Model ----
(***************************************************************************)
(* A model of leaf, the Oracle schema deployment engine: the diff engine   *)
(* (src/src/delta/delta.rs), the state store (src/src/repo/*.rs) and the   *)
(* deployment and rollback coordinators                                    *)
(* (src/src/services/deployment_service.rs).                               *)
(*                                                                         *)
(* Option<T> is a sequence of length 0 (None) or 1 (Some).  A DDL text is   *)
(* a record [cols, body]: cols is the parenthesised list of a CREATE TABLE *)
(* as the entries the text holds, in the text's order, and body stands for *)
(* the rest of the text.  A script text is a record [op, ...]; op "DDL" is  *)
(* an object's DDL used verbatim as a script.                              *)
(***************************************************************************)
EXTENDS Integers, Sequences, FiniteSets, TLC

\* ------------------------------------------------------------------ bounds

\* Rows the deployments table may hold.
MaxDeployments == 2
\* Service calls (run, prepare, apply, rollback, reset) the clients may start:
\* two concurrent clients, and one client alone.
MaxCalls == 2
MaxCallsSeq == 3
MaxCallsRec == 3
MaxCallsDry == 2
MaxCallsRace == 2
MaxCreates == 2
\* Failures from outside the model: a connection that cannot be opened, a
\* statement Oracle rejects, a client that dies in mid-call.
MaxFaults == 1

\* ------------------------------------------------------------- small helpers

None == <<>>
Some(x) == <<x>>
IsSome(o) == Len(o) = 1
Unwrap(o) == o[1]

Range(s) == {s[i] : i \in 1..Len(s)}

\* The permutations of a finite set, as sequences.
Perms(S) == {f \in [1..Cardinality(S) -> S] : \A i, j \in 1..Cardinality(S) : f[i] = f[j] => i = j}

RECURSIVE Flatten(_)
Flatten(ss) == IF ss = <<>> THEN <<>> ELSE Head(ss) \o Flatten(Tail(ss))

Reverse(s) == [i \in 1..Len(s) |-> s[Len(s) + 1 - i]]

Min2(a, b) == IF a < b THEN a ELSE b

\* ------------------------------------------------------------ catalog data

Owner == "HR"
TableKey == [object_type |-> "TABLE", object_name |-> "T"]
ViewKey == [object_type |-> "VIEW", object_name |-> "V"]
Keys == {TableKey, ViewKey}
\* The order in which a catalog query lists the objects.
KeyOrder == <<TableKey, ViewKey>>

ColNames == {"A", "B"}
AllColNames == {"ID"} \cup ColNames
IdCol == [name |-> "ID", def |-> "d1"]

Col(n, d) == [name |-> n, def |-> d]
TableDDL(cols) == [cols |-> cols, body |-> "T"]
ViewDDL(b) == [cols |-> <<>>, body |-> b]

\* Object (src/src/types/oracle.rs), without last_ddl_time.
Object(k, ddl) ==
  [owner |-> Owner, object_name |-> k.object_name, object_type |-> k.object_type, ddl |-> ddl]

\* get_objects_with_ddls: the objects of a catalog, each with its DDL.
RECURSIVE ListFrom(_, _)
ListFrom(cat, ks) ==
  IF ks = <<>> THEN <<>>
  ELSE (IF IsSome(cat[Head(ks)]) THEN <<Object(Head(ks), cat[Head(ks)])>> ELSE <<>>)
       \o ListFrom(cat, Tail(ks))
get_objects_with_ddls(cat) == ListFrom(cat, KeyOrder)

\* ------------------------------------------------------------- script texts

Script(op, o, col, def, ddl) ==
  [op |-> op, object_type |-> o.object_type, object_name |-> o.object_name,
   col |-> col, def |-> def, ddl |-> ddl]

\* "DROP {type} {owner}.{name}"
get_delete_scripts(target) == <<Script("DROP", target, "", "", None)>>

\* the object's DDL, verbatim
get_insert_scripts(source) == <<Script("DDL", source, "", "", source.ddl)>>

ConstraintWords == {"CONSTRAINT", "PRIMARY KEY", "FOREIGN KEY", "UNIQUE", "CHECK", "INDEX", "--"}
is_constraint_line(e) == e.name \in ConstraintWords

\* The entries of the parenthesised list that are not constraint lines.
extract_columns(ddl) == SelectSeq(ddl.cols, LAMBDA e : ~is_constraint_line(e))

\* (name, definition) of an entry that has a data type; None otherwise.
parse_column(e) == IF e.def = "" THEN None ELSE Some(e)

\* HashMap<name, definition> built by inserting the parsed entries in order:
\* the last entry of a name wins.
ColumnMap(ddl) ==
  LET cols == extract_columns(ddl)
      parsed == SelectSeq(cols, LAMBDA e : IsSome(parse_column(e)))
      names == {parsed[i].name : i \in 1..Len(parsed)}
      last(n) == CHOOSE i \in 1..Len(parsed) :
                   parsed[i].name = n /\ \A j \in 1..Len(parsed) : parsed[j].name = n => j <= i
  IN [n \in names |-> parsed[last(n)].def]

\* The keys of a HashMap in the order one iteration visits them: ord is that
\* map's iteration order over all names.
IterKeys(m, ord) == SelectSeq(ord, LAMBDA n : n \in DOMAIN m)

MapSeq(s, F(_)) == [i \in 1..Len(s) |-> F(s[i])]

\* A faulty variant that emits the DROP COLUMN block after the MODIFY block.
get_update_scripts_drops_last(source, target, ordS, ordT) ==
  IF source.ddl = target.ddl THEN <<>>
  ELSE IF source.object_type # "TABLE" THEN <<Script("DDL", source, "", "", source.ddl)>>
  ELSE IF ~IsSome(source.ddl) \/ ~IsSome(target.ddl) THEN <<>>
  ELSE
    LET source_map == ColumnMap(Unwrap(source.ddl))
        target_map == ColumnMap(Unwrap(target.ddl))
        sk == IterKeys(source_map, ordS)
        tk == IterKeys(target_map, ordT)
        adds == MapSeq(SelectSeq(sk, LAMBDA n : n \notin DOMAIN target_map),
                       LAMBDA n : Script("ADD", source, n, source_map[n], None))
        drops == MapSeq(SelectSeq(tk, LAMBDA n : n \notin DOMAIN source_map),
                        LAMBDA n : Script("DROPCOL", source, n, "", None))
        mods == MapSeq(SelectSeq(sk, LAMBDA n : n \in DOMAIN target_map /\ source_map[n] # target_map[n]),
                       LAMBDA n : Script("MODIFY", source, n, source_map[n], None))
    IN adds \o mods \o drops

get_update_scripts(source, target, ordS, ordT) ==
  IF source.ddl = target.ddl THEN <<>>
  ELSE IF source.object_type # "TABLE" THEN <<Script("DDL", source, "", "", source.ddl)>>
  ELSE IF ~IsSome(source.ddl) \/ ~IsSome(target.ddl) THEN <<>>
  ELSE
    LET source_map == ColumnMap(Unwrap(source.ddl))
        target_map == ColumnMap(Unwrap(target.ddl))
        sk == IterKeys(source_map, ordS)
        tk == IterKeys(target_map, ordT)
        adds == MapSeq(SelectSeq(sk, LAMBDA n : n \notin DOMAIN target_map),
                       LAMBDA n : Script("ADD", source, n, source_map[n], None))
        drops == MapSeq(SelectSeq(tk, LAMBDA n : n \notin DOMAIN source_map),
                        LAMBDA n : Script("DROPCOL", source, n, "", None))
        mods == MapSeq(SelectSeq(sk, LAMBDA n : n \in DOMAIN target_map /\ source_map[n] # target_map[n]),
                       LAMBDA n : Script("MODIFY", source, n, source_map[n], None))
    IN adds \o drops \o mods

\* The iteration orders of the four HashMaps one find_scripts call builds:
\* source and target map of the forward call, and of the swapped call.
Orders == [fs : Perms(AllColNames), ft : Perms(AllColNames),
           rs : Perms(AllColNames), rt : Perms(AllColNames)]
\* ID has the same definition in every catalog and no script is generated
\* for it: the orders that differ in the other names are the ones to draw.
DrawnOrders == {o \in Orders : o.fs[1] = "ID" /\ o.ft[1] = "ID" /\ o.rs[1] = "ID" /\ o.rt[1] = "ID"}

\* find_scripts(Some(s), None), (None, Some(t)), (Some(s), Some(t)).
find_scripts(source, target, o) ==
  IF ~IsSome(source) /\ IsSome(target) THEN
    Some([scripts |-> get_delete_scripts(Unwrap(target)),
          rollback_scripts |-> get_insert_scripts(Unwrap(target))])
  ELSE IF IsSome(source) /\ ~IsSome(target) THEN
    Some([scripts |-> get_insert_scripts(Unwrap(source)),
          rollback_scripts |-> get_delete_scripts(Unwrap(source))])
  ELSE IF IsSome(source) /\ IsSome(target) THEN
    Some([scripts |-> get_update_scripts(Unwrap(source), Unwrap(target), o.fs, o.ft),
          rollback_scripts |-> get_update_scripts(Unwrap(target), Unwrap(source), o.rt, o.rs)])
  ELSE None

KeyOf(obj) == [object_type |-> obj.object_type, object_name |-> obj.object_name]

\* objects_as_map(targets).get(key): the last object listed under the key.
Lookup(objs, k) ==
  LET hits == SelectSeq(objs, LAMBDA x : KeyOf(x) = k)
  IN IF hits = <<>> THEN None ELSE Some(hits[Len(hits)])

Delta(obj, source_ddl, target_ddl, sc) ==
  [object_type |-> obj.object_type, object_name |-> obj.object_name, object_owner |-> obj.owner,
   source_ddl |-> source_ddl, target_ddl |-> target_ddl,
   scripts |-> IF IsSome(sc) THEN Unwrap(sc).scripts ELSE <<>>,
   rollback_scripts |-> IF IsSome(sc) THEN Unwrap(sc).rollback_scripts ELSE <<>>]

\* The pass over the sources.
SourceDeltas(sources, targets, o) ==
  MapSeq(sources, LAMBDA s :
    LET target == Lookup(targets, KeyOf(s))
    IN Delta(s, s.ddl,
             IF IsSome(target) THEN Some(IF IsSome(Unwrap(target).ddl) THEN Unwrap(Unwrap(target).ddl) ELSE ViewDDL("")) ELSE None,
             find_scripts(Some(s), target, o)))

\* The pass over the targets no source has the key of.
TargetDeltas(sources, targets, o) ==
  MapSeq(SelectSeq(targets, LAMBDA t : \A i \in 1..Len(sources) : KeyOf(sources[i]) # KeyOf(t)),
         LAMBDA t : Delta(t, None, t.ddl, find_scripts(None, Some(t), o)))

\* A faulty variant without the pass over the targets.
find_deltas_of_sources(sources, targets, o) == SourceDeltas(sources, targets, o)

find_deltas(sources, targets, o) ==
  SourceDeltas(sources, targets, o) \o TargetDeltas(sources, targets, o)

\* str::to_uppercase, on the tokens the model draws.
to_uppercase(s) ==
  IF s = "view" THEN "VIEW" ELSE IF s = "column" THEN "COLUMN" ELSE IF s = "table" THEN "TABLE" ELSE s

\* script_upper.contains("DROP " + token)
ContainsDrop(script, token) ==
  \/ script.op = "DROP" /\ script.object_type = token
  \/ script.op = "DROPCOL" /\ token = "COLUMN"

\* A faulty variant that leaves DROP COLUMN scripts out whatever the plan says.
excluding_column_drops(deltas, disabled_drop_types) ==
  LET filtered == MapSeq(deltas, LAMBDA d :
                    [d EXCEPT !.scripts = SelectSeq(d.scripts, LAMBDA x : x.op # "DROPCOL")])
  IN SelectSeq(filtered, LAMBDA d : d.scripts # <<>>)

with_disabled_drop_types_excluded(deltas, disabled_drop_types) ==
  IF ~IsSome(disabled_drop_types) THEN deltas
  ELSE
    LET disabled_types_set == {to_uppercase(s) : s \in Range(Unwrap(disabled_drop_types))}
        keep(script) == ~\E t \in disabled_types_set : ContainsDrop(script, t)
        filtered == MapSeq(deltas, LAMBDA d : [d EXCEPT !.scripts = SelectSeq(d.scripts, keep)])
    IN SelectSeq(filtered, LAMBDA d : d.scripts # <<>>)


\* The 3-argument find_deltas the coordinator calls: with disable_all_drops the
\* pass over the targets is skipped and DROP COLUMN scripts are left out.
find_deltas_for_plan(sources, targets, disable_all_drops, o) ==
  IF disable_all_drops
  THEN with_disabled_drop_types_excluded(SourceDeltas(sources, targets, o), Some(<<"COLUMN">>))
  ELSE find_deltas(sources, targets, o)

\* ------------------------------------------------------- the target database

\* What executing a script text does to a catalog: [ok, cat].
Exec(cat, script) ==
  LET k == [object_type |-> script.object_type, object_name |-> script.object_name]
      present == IsSome(cat[k])
      ddl == Unwrap(cat[k])
      has(c) == \E i \in 1..Len(ddl.cols) : ddl.cols[i].name = c
      fail == [ok |-> FALSE, cat |-> cat]
      put(d) == [ok |-> TRUE, cat |-> [cat EXCEPT ![k] = d]]
  IN CASE script.op = "DDL" ->
            \* CREATE TABLE fails on an existing table; the other types are
            \* CREATE OR REPLACE.
            IF script.object_type = "TABLE" /\ present THEN fail ELSE put(script.ddl)
       [] script.op = "DROP" -> IF present THEN put(None) ELSE fail
       [] script.op = "ADD" ->
            IF present /\ ~has(script.col)
            THEN put(Some([ddl EXCEPT !.cols = Append(@, Col(script.col, script.def))]))
            ELSE fail
       [] script.op = "DROPCOL" ->
            IF present /\ has(script.col)
            THEN put(Some([ddl EXCEPT !.cols = SelectSeq(@, LAMBDA e : e.name # script.col)]))
            ELSE fail
       [] script.op = "MODIFY" ->
            IF present /\ has(script.col)
            THEN put(Some([ddl EXCEPT !.cols =
                   [i \in 1..Len(@) |-> IF @[i].name = script.col THEN Col(script.col, script.def) ELSE @[i]]]))
            ELSE fail
       [] OTHER -> fail

\* ---------------------------------------------------------------- the state

Procs == {1, 2}
PlanIds == {1, 2}
ConnIds == {1, 2, 3}

VARIABLES
  plans,        \* plans table: id -> row
  deployments,  \* deployments table: the row of id i at index i
  changesets,   \* changesets table
  changes,      \* changes table
  rollbacks,    \* rollbacks table
  db,           \* the Oracle catalogs: connection id -> key -> Option<DDL>
  proc,         \* the clients: the call each is in, and its local variables
  calls,        \* service calls the clients may still start
  faults,       \* failures from outside that may still happen
  execLog,      \* the statements executed on Oracle, in order
  snap,         \* per deployment: the target catalog when its first apply began,
                \* and the length of execLog then
  connections   \* connections table: the row of id i at index i

vars == <<plans, deployments, changesets, changes, rollbacks, db, proc, calls, faults, execLog, snap,
          connections>>
store == <<plans, deployments, changesets, changes, rollbacks, connections>>

Idle == [pc |-> "idle", op |-> "none", plan_id |-> 0, deployment_id |-> 0, fail_fast |-> FALSE,
         prep |-> "", work |-> <<>>, ci |-> 1, ki |-> 1, errors |-> <<>>, cs_errors |-> <<>>,
         exec_ok |-> TRUE, result |-> "", pre |-> None, deltas |-> <<>>, count |-> 0, log_at |-> 0,
         dry |-> FALSE, sink |-> None, args |-> None]
Off == [Idle EXCEPT !.pc = "off"]

\* ------------------------------------------------------------ the state store

\* PlanRepository::set_status
PlanSetStatus(pl, id, status) == [pl EXCEPT ![id].status = status]

\* PlanRepository::is_running
is_running(id) == plans[id].status = "RUNNING"

\* PlanRepository::is_connection_in_use
is_connection_in_use(c) ==
  \E i \in DOMAIN plans :
    /\ plans[i].source_connection_id = c \/ plans[i].target_connection_id = c
    /\ plans[i].status = "RUNNING"

\* chrono::Utc::now(): the clock, which ticks with every call made.
Now == 0 - calls

\* DeploymentRepository::set_status, with ActiveModel::set_status: ended_at is
\* stamped for Success and Error and left as it is for every other status.
DeploymentSetStatus(ds, id, status) ==
  [ds EXCEPT ![id].status = status,
             ![id].started_at = IF status = "RUNNING" THEN Some(Now) ELSE @,
             ![id].ended_at = IF status \in {"SUCCESS", "ERROR"} THEN TRUE ELSE @]

\* DeploymentRepository::set_error, called by run; its code is not in the
\* repository snapshot: status ERROR with the flat error list, ended_at stamped.
DeploymentSetError(ds, id, errors) ==
  [ds EXCEPT ![id].status = "ERROR", ![id].errors = errors, ![id].ended_at = TRUE]

\* DeploymentRepository::find_last_successful_by_plan_id: created_at descending.
find_last_successful_by_plan_id(plan_id) ==
  LET S == {i \in 1..Len(deployments) :
              deployments[i].plan_id = plan_id /\ deployments[i].status = "SUCCESS"}
  IN IF S = {} THEN None ELSE Some(CHOOSE i \in S : \A j \in S : j <= i)

\* The ORDER BY expression of the composite fetch.
OrderKey(cs) ==
  (CASE cs.object_type = "TABLE" -> 100
     [] cs.object_type = "SEQUENCE" -> 200
     [] cs.object_type = "VIEW" -> 300
     [] cs.object_type = "PACKAGE" -> 400
     [] cs.object_type = "PACKAGE BODY" -> 500
     [] cs.object_type = "PROCEDURE" -> 600
     [] cs.object_type = "FUNCTION" -> 700
     [] cs.object_type = "INDEX" -> 800
     [] cs.object_type = "TRIGGER" -> 900
     [] OTHER -> 1000)
  * (IF cs.target_ddl = None THEN 1 ELSE -1)

\* The ids of S in ascending (OrderKey, id) order.
RECURSIVE SortChangesets(_)
SortChangesets(S) ==
  IF S = {} THEN <<>>
  ELSE LET before(a, b) == \/ OrderKey(changesets[a]) < OrderKey(changesets[b])
                           \/ OrderKey(changesets[a]) = OrderKey(changesets[b]) /\ a <= b
           m == CHOOSE a \in S : \A b \in S : before(a, b)
       IN <<m>> \o SortChangesets(S \ {m})

\* The ids of a set of rows in ascending order.
RECURSIVE SortIds(_)
SortIds(S) ==
  IF S = {} THEN <<>>
  ELSE LET m == CHOOSE a \in S : \A b \in S : a <= b IN <<m>> \o SortIds(S \ {m})

ChangesOf(cs_id) == SortIds({i \in 1..Len(changes) : changes[i].changeset_id = cs_id})

\* ChangesetRepository::get_by_deployment_id_with_changes: (changeset, changes).
get_by_deployment_id_with_changes(deployment_id) ==
  MapSeq(SortChangesets({i \in 1..Len(changesets) : changesets[i].deployment_id = deployment_id}),
         LAMBDA c : [cs |-> c, changes |-> ChangesOf(c)])

\* ChangesetRepository::find_by_deployment_id_with_changes: None when empty.
find_by_deployment_id_with_changes(deployment_id) ==
  LET r == get_by_deployment_id_with_changes(deployment_id)
  IN IF r = <<>> THEN None ELSE Some(r)

\* RollbackRepository::get_rollbacks_with_changes_and_changesets: the rollbacks
\* of the deployment's changes, by rollback id.
get_rollbacks_with_changes_and_changesets(deployment_id) ==
  LET r == SortIds({i \in 1..Len(rollbacks) :
                      changesets[changes[rollbacks[i].change_id].changeset_id].deployment_id = deployment_id})
  IN IF r = <<>> THEN None ELSE Some(r)


\* ------------------------------------------------------------ call and return

Call(p, op, plan_id, deployment_id, fail_fast, pc) ==
  /\ proc[p].pc = "idle"
  /\ calls > 0
  /\ calls' = calls - 1
  /\ proc' = [proc EXCEPT ![p] = [Idle EXCEPT !.pc = pc, !.op = op, !.plan_id = plan_id,
                                               !.deployment_id = deployment_id,
                                               !.fail_fast = fail_fast, !.pre = Some(store),
                                               !.log_at = Len(execLog),
                                               !.sink = proc[p].sink]]

\* A call of prepare or run with a dry context, whose ScriptWriter is new.
CallDry(p, op, plan_id, pc) ==
  /\ proc[p].pc = "idle"
  /\ calls > 0
  /\ calls' = calls - 1
  /\ proc' = [proc EXCEPT ![p] = [Idle EXCEPT !.pc = pc, !.op = op, !.plan_id = plan_id,
                                               !.pre = Some(store), !.log_at = Len(execLog),
                                               !.dry = TRUE]]

\* The call of client p returns res to its caller; with DeployError go its
\* count and its errors.
Ret(pr, res) == [Idle EXCEPT !.op = pr.op, !.plan_id = pr.plan_id,
                             !.deployment_id = pr.deployment_id, !.result = res, !.pre = pr.pre,
                             !.fail_fast = pr.fail_fast, !.errors = pr.errors, !.count = pr.count,
                             !.log_at = pr.log_at, !.dry = pr.dry, !.sink = pr.sink,
                             !.args = pr.args]

\* An injected failure (a connection that cannot be opened, a statement Oracle
\* rejects for a reason outside the model) is drawn while the budget lasts.
MayFail(f) == f \in (IF faults > 0 THEN BOOLEAN ELSE {FALSE})
Charge(f) == faults' = IF f THEN faults - 1 ELSE faults

\* ---------------------------------------------------- DeploymentService::run

PreparingNow == Cardinality({q \in Procs : proc[q].pc = "prepare"})

StartRun(p, plan_id, fail_fast) ==
  /\ Len(deployments) + PreparingNow < MaxDeployments
  /\ Call(p, "run", plan_id, 0, fail_fast, "prepare")
  /\ UNCHANGED <<store, db, faults, execLog, snap>>

StartPrepare(p, plan_id) ==
  /\ Len(deployments) + PreparingNow < MaxDeployments
  /\ Call(p, "prepare", plan_id, 0, FALSE, "prepare")
  /\ UNCHANGED <<store, db, faults, execLog, snap>>

StartRunDry(p, plan_id) ==
  /\ CallDry(p, "run", plan_id, "prepare")
  /\ UNCHANGED <<store, db, faults, execLog, snap>>

StartPrepareDry(p, plan_id) ==
  /\ CallDry(p, "prepare", plan_id, "prepare")
  /\ UNCHANGED <<store, db, faults, execLog, snap>>

\* normalize_sql, which ScriptWriter applies to a text before appending it;
\* its code is not in the repository snapshot: the text it makes of a script.
normalize_sql(content) == [normalized |-> content]

\* create_changesets with a dry context: what its loops hand to
\* ctx.write_script and to ctx.write_rollback_script, in order.
DryPairs(delta) == 1..Min2(Len(delta.scripts), Len(delta.rollback_scripts))
DryDeltas(deltas) == SelectSeq(deltas, LAMBDA d : d.source_ddl # d.target_ddl)
WrittenScripts(deltas) ==
  Flatten(MapSeq(DryDeltas(deltas), LAMBDA d : [i \in DryPairs(d) |-> normalize_sql(d.scripts[i])]))
WrittenRollbackScripts(deltas) ==
  Flatten(MapSeq(DryDeltas(deltas),
                 LAMBDA d : [i \in DryPairs(d) |-> normalize_sql(d.rollback_scripts[i])]))

\* A faulty variant that creates a changeset for every delta, one with equal
\* DDLs included.
RECURSIVE CreateRowsForEveryDelta(_, _, _, _)
CreateRowsForEveryDelta(deltas, deployment_id, css, chs) ==
  IF deltas = <<>> THEN [changesets |-> css, changes |-> chs]
  ELSE
    LET delta == Head(deltas)
        cs == [deployment_id |-> deployment_id, object_type |-> delta.object_type,
               object_name |-> delta.object_name, object_owner |-> delta.object_owner,
               source_ddl |-> delta.source_ddl, target_ddl |-> delta.target_ddl,
               status |-> "IDLE", errors |-> None, started_at |-> None, ended_at |-> FALSE]
    IN CreateRowsForEveryDelta(Tail(deltas), deployment_id, Append(css, cs), chs)

\* create_changesets: the rows a list of deltas adds to changesets and changes.
RECURSIVE CreateRows(_, _, _, _)
CreateRows(deltas, deployment_id, css, chs) ==
  IF deltas = <<>> THEN [changesets |-> css, changes |-> chs]
  ELSE
    LET delta == Head(deltas)
        cs == [deployment_id |-> deployment_id, object_type |-> delta.object_type,
               object_name |-> delta.object_name, object_owner |-> delta.object_owner,
               source_ddl |-> delta.source_ddl, target_ddl |-> delta.target_ddl,
               status |-> "IDLE", errors |-> None, started_at |-> None, ended_at |-> FALSE]
        n == Min2(Len(delta.scripts), Len(delta.rollback_scripts))
        rows == [i \in 1..n |-> [changeset_id |-> Len(css) + 1, script |-> delta.scripts[i],
                                 rollback_script |-> delta.rollback_scripts[i],
                                 status |-> "IDLE", error |-> None,
                                 started_at |-> None, ended_at |-> FALSE]]
    IN IF delta.source_ddl = delta.target_ddl
       THEN CreateRows(Tail(deltas), deployment_id, css, chs)
       ELSE CreateRows(Tail(deltas), deployment_id, Append(css, cs), chs \o rows)

\* A faulty variant that diffs in full whatever the plan says of drops.
PlanDeltasOfFullDiff(plan, o) ==
  find_deltas(get_objects_with_ddls(db[plan.source_connection_id]),
              get_objects_with_ddls(db[plan.target_connection_id]), o)

\* The deltas of a plan, given the iteration orders of the maps.
PlanDeltas(plan, o) ==
  LET sources == get_objects_with_ddls(db[plan.source_connection_id])
      targets == get_objects_with_ddls(db[plan.target_connection_id])
      deltas == find_deltas_for_plan(sources, targets, plan.disable_all_drops, o)
  IN IF ~plan.disable_all_drops
     THEN with_disabled_drop_types_excluded(deltas, plan.disabled_drop_types)
     ELSE deltas

\* prepare, up to the end of its inner block: the clients are opened, the
\* schemas validated, the catalogs fetched and diffed, the rows created.
Prepare(p) ==
  /\ proc[p].pc = "prepare"
  /\ LET plan == plans[proc[p].plan_id] IN
     \E connect_fails \in BOOLEAN, fetch_fails \in BOOLEAN,
        deltas \in {PlanDeltas(plan, o) : o \in DrawnOrders} :
       /\ MayFail(connect_fails) /\ MayFail(fetch_fails) /\ ~(connect_fails /\ fetch_fails)
       /\ Charge(connect_fails \/ fetch_fails)
       /\ IF connect_fails THEN
            \* get_client fails: prepare returns before its inner block
            /\ proc' = [proc EXCEPT ![p] =
                 IF @.op = "run" THEN [@ EXCEPT !.pc = "run_prep_err", !.result = "connect_error"]
                 ELSE Ret(@, "connect_error")]
            /\ UNCHANGED <<deployments, changesets, changes, snap>>
          ELSE IF fetch_fails THEN
            /\ proc' = [proc EXCEPT ![p] = [@ EXCEPT !.pc = "prepare_status", !.prep = "error"]]
            /\ UNCHANGED <<deployments, changesets, changes, snap>>
          ELSE IF proc[p].dry THEN
            \* no deployment is created; the scripts go to the context
            /\ proc' = [proc EXCEPT ![p] =
                 [@ EXCEPT !.pc = "prepare_status", !.prep = "none",
                           !.sink = Some([plan_id |-> proc[p].plan_id, db |-> db,
                                          scripts |-> WrittenScripts(deltas),
                                          rollback_scripts |-> WrittenRollbackScripts(deltas)])]]
            /\ UNCHANGED <<deployments, changesets, changes, snap>>
          ELSE
            LET id == Len(deployments) + 1
                rows == CreateRows(deltas, id, changesets, changes)
            IN /\ deployments' = Append(deployments,
                    [plan_id |-> proc[p].plan_id, status |-> "IDLE", errors |-> None,
                     started_at |-> None, ended_at |-> FALSE])
               /\ snap' = Append(snap, None)
               /\ IF deltas = <<>> THEN
                    /\ proc' = [proc EXCEPT ![p] = [@ EXCEPT !.pc = "prepare_status", !.prep = "none"]]
                    /\ UNCHANGED <<changesets, changes>>
                  ELSE
                    /\ changesets' = rows.changesets
                    /\ changes' = rows.changes
                    /\ proc' = [proc EXCEPT ![p] = [@ EXCEPT !.pc = "prepare_status", !.prep = "ok",
                                                             !.deployment_id = id, !.deltas = deltas]]
  /\ UNCHANGED <<plans, rollbacks, db, calls, execLog, connections>>

\* prepare: plan_repo.set_status(plan_id, final_status), and the return.
PrepareStatus(p) ==
  /\ proc[p].pc = "prepare_status"
  /\ LET ok == proc[p].prep \in {"ok", "none"} IN
     /\ plans' = PlanSetStatus(plans, proc[p].plan_id, IF ok THEN "SUCCESS" ELSE "ERROR")
     /\ proc' = [proc EXCEPT ![p] =
          IF @.op = "prepare" THEN Ret(@, @.prep)
          ELSE IF @.prep = "ok" THEN [@ EXCEPT !.pc = "apply_validate", !.deltas = <<>>]
          ELSE IF @.prep = "none" THEN Ret(@, "none")
          ELSE [@ EXCEPT !.pc = "run_prep_err", !.result = "error"]]
  /\ UNCHANGED <<deployments, changesets, changes, rollbacks, db, calls, faults, execLog, snap, connections>>

\* run, prepare failed: plan_repo.set_status(plan_id, Error), return the error.
RunPrepareErr(p) ==
  /\ proc[p].pc = "run_prep_err"
  /\ plans' = PlanSetStatus(plans, proc[p].plan_id, "ERROR")
  /\ proc' = [proc EXCEPT ![p] = Ret(@, @.result)]
  /\ UNCHANGED <<deployments, changesets, changes, rollbacks, db, calls, faults, execLog, snap, connections>>


\* -------------------------------------------------- DeploymentService::apply

StartApply(p, deployment_id, fail_fast) ==
  /\ deployment_id \in 1..Len(deployments)
  /\ Call(p, "apply", deployments[deployment_id].plan_id, deployment_id, fail_fast, "apply_validate")
  /\ UNCHANGED <<store, db, faults, execLog, snap>>

\* "Change {id} ({object_name}): {e}", or the text of another error.
ErrorMsg(change_id, object_name, msg) ==
  [change |-> change_id, object_name |-> object_name, msg |-> msg]

\* apply returns res: to its caller, or into run's match.
ApplyRet(pr, res) ==
  IF pr.op = "run"
  THEN [pr EXCEPT !.pc = IF res = "ok" THEN "run_ok_dep" ELSE "run_err_plan", !.result = res,
                  !.work = <<>>, !.ci = 1, !.ki = 1, !.cs_errors = <<>>]
  ELSE Ret(pr, res)

\* validate_plan_is_runnable: the error it returns, or "ok".
validate_plan_is_runnable(plan_id) ==
  IF is_running(plan_id) THEN "PlanIsAlreadyRunning"
  ELSE IF is_connection_in_use(plans[plan_id].source_connection_id) THEN "SourceConnectionInUse"
  ELSE IF is_connection_in_use(plans[plan_id].target_connection_id) THEN "TargetConnectionInUse"
  ELSE "ok"

\* apply: the deployment and its plan are read, the plan is validated and the
\* target client opened.
ApplyValidate(p) ==
  /\ proc[p].pc = "apply_validate"
  /\ LET d == proc[p].deployment_id
         plan_id == deployments[d].plan_id
         v == validate_plan_is_runnable(plan_id)
     IN \E connect_fails \in BOOLEAN :
          /\ MayFail(connect_fails) /\ (connect_fails => v = "ok")
          /\ Charge(connect_fails)
          /\ IF v # "ok" THEN
               /\ proc' = [proc EXCEPT ![p] = ApplyRet([@ EXCEPT !.errors = <<ErrorMsg(0, "", v)>>], v)]
               /\ snap' = snap
             ELSE IF connect_fails THEN
               /\ proc' = [proc EXCEPT ![p] = ApplyRet([@ EXCEPT !.errors = <<ErrorMsg(0, "", "connect_error")>>], "connect_error")]
               /\ snap' = snap
             ELSE
               /\ proc' = [proc EXCEPT ![p] = [@ EXCEPT !.pc = "apply_set_plan", !.plan_id = plan_id]]
               /\ snap' = [snap EXCEPT ![d] =
                             IF @ = None
                             THEN Some([cat |-> db[plans[plan_id].target_connection_id],
                                        at |-> Len(execLog)])
                             ELSE @]
  /\ UNCHANGED <<store, db, calls, execLog>>

ApplySetPlanRunning(p) ==
  /\ proc[p].pc = "apply_set_plan"
  /\ plans' = PlanSetStatus(plans, proc[p].plan_id, "RUNNING")
  /\ proc' = [proc EXCEPT ![p].pc = "apply_set_dep"]
  /\ UNCHANGED <<deployments, changesets, changes, rollbacks, db, calls, faults, execLog, snap, connections>>

ApplySetDeploymentRunning(p) ==
  /\ proc[p].pc = "apply_set_dep"
  /\ deployments' = DeploymentSetStatus(deployments, proc[p].deployment_id, "RUNNING")
  /\ proc' = [proc EXCEPT ![p].pc = "apply_fetch"]
  /\ UNCHANGED <<plans, changesets, changes, rollbacks, db, calls, faults, execLog, snap, connections>>

\* The position after changeset ci of the work list is done with: the next
\* changeset, or the end of the loop.
ApplyNext(pr) ==
  IF pr.ci < Len(pr.work)
  THEN [pr EXCEPT !.pc = "apply_cs_start", !.ci = @ + 1, !.ki = 1, !.cs_errors = <<>>]
  ELSE IF pr.errors # <<>> THEN ApplyRet([pr EXCEPT !.count = Len(pr.errors)], "DeployError")
  ELSE ApplyRet(pr, "ok")

ApplyFetch(p) ==
  /\ proc[p].pc = "apply_fetch"
  /\ LET w == get_by_deployment_id_with_changes(proc[p].deployment_id) IN
     proc' = [proc EXCEPT ![p] =
       IF w = <<>> THEN ApplyRet(@, "ok")
       ELSE [@ EXCEPT !.pc = "apply_cs_start", !.work = w, !.ci = 1, !.ki = 1]]
  /\ UNCHANGED <<store, db, calls, faults, execLog, snap>>

\* A changeset without changes is skipped; otherwise it is saved as started.
ApplyChangesetStart(p) ==
  /\ proc[p].pc = "apply_cs_start"
  /\ LET w == proc[p].work[proc[p].ci] IN
     IF w.changes = <<>> THEN
       /\ proc' = [proc EXCEPT ![p] = ApplyNext(@)]
       /\ changesets' = changesets
     ELSE
       /\ changesets' = [changesets EXCEPT ![w.cs].status = "RUNNING",
                                            ![w.cs].started_at = Some(Now)]
       /\ proc' = [proc EXCEPT ![p].pc = "apply_ch_start"]
  /\ UNCHANGED <<plans, deployments, changes, rollbacks, db, calls, faults, execLog, snap, connections>>

CurChange(pr) == pr.work[pr.ci].changes[pr.ki]

ApplyChangeStart(p) ==
  /\ proc[p].pc = "apply_ch_start"
  /\ changes' = [changes EXCEPT ![CurChange(proc[p])].status = "RUNNING",
                                ![CurChange(proc[p])].started_at = Some(Now)]
  /\ proc' = [proc EXCEPT ![p].pc = "apply_exec"]
  /\ UNCHANGED <<plans, deployments, changesets, rollbacks, db, calls, faults, execLog, snap, connections>>

\* client.execute(&script) on the target, and the bookkeeping in memory.
ApplyExecute(p) ==
  /\ proc[p].pc = "apply_exec"
  /\ LET c == CurChange(proc[p])
         conn == plans[proc[p].plan_id].target_connection_id
         r == Exec(db[conn], changes[c].script)
         name == changesets[proc[p].work[proc[p].ci].cs].object_name
     IN \E rejected \in BOOLEAN :
          /\ MayFail(rejected) /\ (rejected => r.ok)
          /\ Charge(rejected)
          /\ LET ok == r.ok /\ ~rejected IN
             /\ db' = IF ok THEN [db EXCEPT ![conn] = r.cat] ELSE db
             /\ execLog' = Append(execLog, [kind |-> "apply", change |-> c, ok |-> ok])
             /\ proc' = [proc EXCEPT ![p] =
                  [@ EXCEPT !.pc = "apply_ch_save", !.exec_ok = ok,
                            !.errors = IF ok THEN @ ELSE Append(@, ErrorMsg(c, name, "ORA")),
                            !.cs_errors = IF ok THEN @ ELSE Append(@, ErrorMsg(c, name, "ORA"))]]
  /\ UNCHANGED <<store, calls, snap>>

\* A faulty variant that goes on with the next Change whatever fail_fast says.
ApplyChangeSaveGoesOn(p) ==
  /\ proc[p].pc = "apply_ch_save"
  /\ LET c == CurChange(proc[p]) IN
     /\ changes' = [changes EXCEPT ![c].status = IF proc[p].exec_ok THEN "SUCCESS" ELSE "ERROR",
                                   ![c].error = IF proc[p].exec_ok THEN @ ELSE Some("ORA"),
                                   ![c].ended_at = IF proc[p].exec_ok THEN TRUE ELSE @]
     /\ proc' = [proc EXCEPT ![p] =
          IF @.ki < Len(@.work[@.ci].changes) THEN [@ EXCEPT !.pc = "apply_ch_start", !.ki = @ + 1]
          ELSE [@ EXCEPT !.pc = "apply_cs_end"]]
  /\ UNCHANGED <<plans, deployments, changesets, rollbacks, db, calls, faults, execLog, snap, connections>>

\* change_repo.save_change(&change_active) after the execution; fail_fast
\* returns here.
ApplyChangeSave(p) ==
  /\ proc[p].pc = "apply_ch_save"
  /\ LET c == CurChange(proc[p]) IN
     /\ changes' = [changes EXCEPT ![c].status = IF proc[p].exec_ok THEN "SUCCESS" ELSE "ERROR",
                                   ![c].error = IF proc[p].exec_ok THEN @ ELSE Some("ORA"),
                                   ![c].ended_at = IF proc[p].exec_ok THEN TRUE ELSE @]
     /\ proc' = [proc EXCEPT ![p] =
          IF ~@.exec_ok /\ @.fail_fast THEN ApplyRet([@ EXCEPT !.count = 1], "DeployError")
          ELSE IF @.ki < Len(@.work[@.ci].changes) THEN [@ EXCEPT !.pc = "apply_ch_start", !.ki = @ + 1]
          ELSE [@ EXCEPT !.pc = "apply_cs_end"]]
  /\ UNCHANGED <<plans, deployments, changesets, rollbacks, db, calls, faults, execLog, snap, connections>>

\* A faulty variant that ends every changeset as SUCCESS, its errors dropped.
ApplyChangesetEndAsSuccess(p) ==
  /\ proc[p].pc = "apply_cs_end"
  /\ changesets' = [changesets EXCEPT ![proc[p].work[proc[p].ci].cs].status = "SUCCESS",
                                       ![proc[p].work[proc[p].ci].cs].ended_at = TRUE]
  /\ proc' = [proc EXCEPT ![p] = ApplyNext(@)]
  /\ UNCHANGED <<plans, deployments, changes, rollbacks, db, calls, faults, execLog, snap, connections>>

\* changeset_active.end(changeset_errors) and its save.
ApplyChangesetEnd(p) ==
  /\ proc[p].pc = "apply_cs_end"
  /\ LET w == proc[p].work[proc[p].ci] IN
     changesets' = [changesets EXCEPT
       ![w.cs].status = IF proc[p].cs_errors = <<>> THEN "SUCCESS" ELSE "ERROR",
       ![w.cs].errors = IF proc[p].cs_errors = <<>> THEN @ ELSE Some(proc[p].cs_errors),
       ![w.cs].ended_at = IF proc[p].cs_errors = <<>> THEN TRUE ELSE @]
  /\ proc' = [proc EXCEPT ![p] = ApplyNext(@)]
  /\ UNCHANGED <<plans, deployments, changes, rollbacks, db, calls, faults, execLog, snap, connections>>

\* run, apply returned Ok: deployment, then plan, to SUCCESS.
RunOkDeployment(p) ==
  /\ proc[p].pc = "run_ok_dep"
  /\ deployments' = DeploymentSetStatus(deployments, proc[p].deployment_id, "SUCCESS")
  /\ proc' = [proc EXCEPT ![p].pc = "run_ok_plan"]
  /\ UNCHANGED <<plans, changesets, changes, rollbacks, db, calls, faults, execLog, snap, connections>>

RunOkPlan(p) ==
  /\ proc[p].pc = "run_ok_plan"
  /\ plans' = PlanSetStatus(plans, proc[p].plan_id, "SUCCESS")
  /\ proc' = [proc EXCEPT ![p] = Ret(@, "ok")]
  /\ UNCHANGED <<deployments, changesets, changes, rollbacks, db, calls, faults, execLog, snap, connections>>

\* A faulty variant that goes on to the deployment's errors and leaves the
\* plan as apply left it.
RunErrPlanLeavesStatus(p) ==
  /\ proc[p].pc = "run_err_plan"
  /\ proc' = [proc EXCEPT ![p].pc = "run_err_dep"]
  /\ UNCHANGED <<store, db, calls, faults, execLog, snap>>

\* run, apply returned an error: plan to ERROR, then the deployment's errors.
RunErrPlan(p) ==
  /\ proc[p].pc = "run_err_plan"
  /\ plans' = PlanSetStatus(plans, proc[p].plan_id, "ERROR")
  /\ proc' = [proc EXCEPT ![p].pc = "run_err_dep"]
  /\ UNCHANGED <<deployments, changesets, changes, rollbacks, db, calls, faults, execLog, snap, connections>>

RunErrDeployment(p) ==
  /\ proc[p].pc = "run_err_dep"
  /\ deployments' = DeploymentSetError(deployments, proc[p].deployment_id, Some(proc[p].errors))
  /\ proc' = [proc EXCEPT ![p] = Ret(@, @.result)]
  /\ UNCHANGED <<plans, changesets, changes, rollbacks, db, calls, faults, execLog, snap, connections>>


\* ----------------------------------------------- DeploymentService::rollback

StartRollback(p, plan_id) ==
  /\ Call(p, "rollback", plan_id, 0, FALSE, "rb_find")
  /\ UNCHANGED <<store, db, faults, execLog, snap>>

\* rollback: the last successful deployment of the plan, or an error.
RollbackFind(p) ==
  /\ proc[p].pc = "rb_find"
  /\ LET d == find_last_successful_by_plan_id(proc[p].plan_id) IN
     proc' = [proc EXCEPT ![p] =
       IF IsSome(d) THEN [@ EXCEPT !.pc = "rb_prepare", !.deployment_id = Unwrap(d)]
       ELSE Ret(@, "NoSuccessfulDeployment")]
  /\ UNCHANGED <<store, db, calls, faults, execLog, snap>>

\* A faulty variant that creates the rollbacks of one changeset only.
RollbacksOfFirstChangeset(cwc) ==
  MapSeq(cwc[1].changes,
         LAMBDA c : [change_id |-> c, script |-> changes[c].rollback_script,
                     status |-> "IDLE", error |-> None])

\* The rollback rows prepare_rollback creates: the changesets in reverse, the
\* changes of each changeset in the order fetched.
NewRollbacks(cwc) ==
  MapSeq(Flatten(MapSeq(Reverse(cwc), LAMBDA w : w.changes)),
         LAMBDA c : [change_id |-> c, script |-> changes[c].rollback_script,
                     status |-> "IDLE", error |-> None])

\* prepare_rollback; the plan is looked up under the deployment's id.
PrepareRollback(p) ==
  /\ proc[p].pc = "rb_prepare"
  /\ LET d == proc[p].deployment_id
         cwc == find_by_deployment_id_with_changes(d)
     IN IF d \notin DOMAIN plans THEN
          /\ proc' = [proc EXCEPT ![p] = Ret(@, "PlanNotFound")]
          /\ rollbacks' = rollbacks
        ELSE IF ~IsSome(cwc) THEN
          /\ proc' = [proc EXCEPT ![p] = Ret(@, "ok")]
          /\ rollbacks' = rollbacks
        ELSE
          /\ rollbacks' = rollbacks \o NewRollbacks(Unwrap(cwc))
          /\ proc' = [proc EXCEPT ![p] =
               IF Len(NewRollbacks(Unwrap(cwc))) > 0 THEN [@ EXCEPT !.pc = "rb_fetch"]
               ELSE Ret(@, "ok")]
  /\ UNCHANGED <<plans, deployments, changesets, changes, db, calls, faults, execLog, snap, connections>>

\* execute_rollbacks: deployment, plan, client and the rollbacks are read.
RollbackFetch(p) ==
  /\ proc[p].pc = "rb_fetch"
  /\ LET d == proc[p].deployment_id
         r == get_rollbacks_with_changes_and_changesets(d)
     IN \E connect_fails \in BOOLEAN :
          /\ MayFail(connect_fails)
          /\ Charge(connect_fails)
          /\ proc' = [proc EXCEPT ![p] =
               IF connect_fails THEN Ret(@, "connect_error")
               ELSE IF ~IsSome(r) THEN Ret([@ EXCEPT !.plan_id = deployments[d].plan_id], "ok")
               ELSE [@ EXCEPT !.pc = "rb_set_plan", !.plan_id = deployments[d].plan_id,
                              !.work = Unwrap(r), !.ki = 1]]
  /\ UNCHANGED <<store, db, calls, execLog, snap>>

RollbackSetPlan(p) ==
  /\ proc[p].pc = "rb_set_plan"
  /\ plans' = PlanSetStatus(plans, proc[p].plan_id, "ROLLING_BACK")
  /\ proc' = [proc EXCEPT ![p].pc = "rb_set_dep"]
  /\ UNCHANGED <<deployments, changesets, changes, rollbacks, db, calls, faults, execLog, snap, connections>>

RollbackSetDeployment(p) ==
  /\ proc[p].pc = "rb_set_dep"
  /\ deployments' = DeploymentSetStatus(deployments, proc[p].deployment_id, "ROLLING_BACK")
  /\ proc' = [proc EXCEPT ![p].pc = "rb_run"]
  /\ UNCHANGED <<plans, changesets, changes, rollbacks, db, calls, faults, execLog, snap, connections>>

CurRollback(pr) == pr.work[pr.ki]

\* rollback_repo.set_status(rollback.id, Running)
RollbackRunning(p) ==
  /\ proc[p].pc = "rb_run"
  /\ rollbacks' = [rollbacks EXCEPT ![CurRollback(proc[p])].status = "RUNNING"]
  /\ proc' = [proc EXCEPT ![p].pc = "rb_exec"]
  /\ UNCHANGED <<plans, deployments, changesets, changes, db, calls, faults, execLog, snap, connections>>

\* client.execute(&rollback.script)
RollbackExecute(p) ==
  /\ proc[p].pc = "rb_exec"
  /\ LET rb == rollbacks[CurRollback(proc[p])]
         conn == plans[proc[p].plan_id].target_connection_id
         r == Exec(db[conn], rb.script)
     IN \E rejected \in BOOLEAN :
          /\ MayFail(rejected) /\ (rejected => r.ok)
          /\ Charge(rejected)
          /\ LET ok == r.ok /\ ~rejected IN
             /\ db' = IF ok THEN [db EXCEPT ![conn] = r.cat] ELSE db
             /\ execLog' = Append(execLog, [kind |-> "rollback", change |-> rb.change_id, ok |-> ok])
             /\ proc' = [proc EXCEPT ![p] = [@ EXCEPT !.pc = "rb_change", !.exec_ok = ok]]
  /\ UNCHANGED <<store, calls, snap>>

\* change_repo.set_status(change.id, RolledBack | RollbackError); when the
\* store rejects the write, the '?' leaves the loop with the error and
\* execute_rollbacks returns it without another write.
RollbackChange(p) ==
  /\ proc[p].pc = "rb_change"
  /\ \E write_fails \in BOOLEAN :
       /\ MayFail(write_fails)
       /\ Charge(write_fails)
       /\ changes' = IF write_fails THEN changes
                     ELSE [changes EXCEPT ![rollbacks[CurRollback(proc[p])].change_id].status =
                             IF proc[p].exec_ok THEN "ROLLED_BACK" ELSE "ROLLBACK_ERROR"]
       /\ proc' = [proc EXCEPT ![p] = IF write_fails THEN Ret(@, "store_error")
                                       ELSE [@ EXCEPT !.pc = "rb_status"]]
  /\ UNCHANGED <<plans, deployments, changesets, rollbacks, db, calls, execLog, snap, connections>>

\* rollback_repo.set_status(rollback.id, Success) or set_error(rollback.id, e)
RollbackStatus(p) ==
  /\ proc[p].pc = "rb_status"
  /\ LET r == CurRollback(proc[p]) IN
     rollbacks' = [rollbacks EXCEPT ![r].status = IF proc[p].exec_ok THEN "SUCCESS" ELSE "ERROR",
                                    ![r].error = IF proc[p].exec_ok THEN @ ELSE Some("ORA")]
  /\ proc' = [proc EXCEPT ![p] =
       IF ~@.exec_ok THEN [@ EXCEPT !.pc = "rb_fail_dep"]
       ELSE IF @.ki < Len(@.work) THEN [@ EXCEPT !.pc = "rb_run", !.ki = @ + 1]
       ELSE [@ EXCEPT !.pc = "rb_done_dep"]]
  /\ UNCHANGED <<plans, deployments, changesets, changes, db, calls, faults, execLog, snap, connections>>

RollbackFailDeployment(p) ==
  /\ proc[p].pc = "rb_fail_dep"
  /\ deployments' = DeploymentSetStatus(deployments, proc[p].deployment_id, "ROLLBACK_ERROR")
  /\ proc' = [proc EXCEPT ![p].pc = "rb_fail_plan"]
  /\ UNCHANGED <<plans, changesets, changes, rollbacks, db, calls, faults, execLog, snap, connections>>

RollbackFailPlan(p) ==
  /\ proc[p].pc = "rb_fail_plan"
  /\ plans' = PlanSetStatus(plans, proc[p].plan_id, "ROLLBACK_ERROR")
  /\ proc' = [proc EXCEPT ![p] = Ret(@, "RollbackError")]
  /\ UNCHANGED <<deployments, changesets, changes, rollbacks, db, calls, faults, execLog, snap, connections>>

RollbackDoneDeployment(p) ==
  /\ proc[p].pc = "rb_done_dep"
  /\ deployments' = DeploymentSetStatus(deployments, proc[p].deployment_id, "ROLLED_BACK")
  /\ proc' = [proc EXCEPT ![p].pc = "rb_done_plan"]
  /\ UNCHANGED <<plans, changesets, changes, rollbacks, db, calls, faults, execLog, snap, connections>>

RollbackDonePlan(p) ==
  /\ proc[p].pc = "rb_done_plan"
  /\ plans' = PlanSetStatus(plans, proc[p].plan_id, "ROLLED_BACK")
  /\ proc' = [proc EXCEPT ![p] = Ret(@, "ok")]
  /\ UNCHANGED <<deployments, changesets, changes, rollbacks, db, calls, faults, execLog, snap, connections>>


\* --------------------------------------------------- operator and failures

\* PlanService::reset_status_by_id: the plan is set to IDLE, whatever it was.
Reset(p, plan_id) ==
  /\ proc[p].pc = "idle"
  /\ calls > 0
  /\ calls' = calls - 1
  /\ plans' = PlanSetStatus(plans, plan_id, "IDLE")
  /\ proc' = [proc EXCEPT ![p] = [Idle EXCEPT !.op = "reset", !.plan_id = plan_id,
                                               !.result = "ok", !.pre = Some(store)]]
  /\ UNCHANGED <<deployments, changesets, changes, rollbacks, db, faults, execLog, snap, connections>>

\* The process of client p dies in the middle of a call (a crash, a cancelled
\* future): nothing is written, the call never returns.
Crash(p) ==
  /\ proc[p].pc \notin {"idle", "off"}
  /\ faults > 0
  /\ faults' = faults - 1
  /\ proc' = [proc EXCEPT ![p] = [Idle EXCEPT !.op = proc[p].op, !.plan_id = proc[p].plan_id,
                                               !.result = "crashed"]]
  /\ UNCHANGED <<store, db, calls, execLog, snap>>

\* ------------------------------------- PlanService and ConnectionService
\* A name is a sequence of characters.

\* The lower case of an ASCII character, as SQLite's LIKE folds it.
Fold(ch) == IF ch = "A" THEN "a" ELSE IF ch = "B" THEN "b" ELSE ch

\* text LIKE pat in SQLite: '%' stands for any characters, '_' for one
\* character, and letters match whatever their case.
RECURSIVE Like(_, _)
Like(text, pat) ==
  IF pat = <<>> THEN text = <<>>
  ELSE IF Head(pat) = "%" THEN Like(text, Tail(pat)) \/ (text # <<>> /\ Like(Tail(text), pat))
  ELSE /\ text # <<>>
       /\ Head(pat) = "_" \/ Fold(Head(pat)) = Fold(Head(text))
       /\ Like(Tail(text), Tail(pat))

\* find_by_name of either repository: the first row whose name is LIKE the
\* argument, as an Option of its id.
find_by_name(rows, name) ==
  LET M == {i \in 1..Len(rows) : Like(rows[i].name, name)}
  IN IF M = {} THEN None ELSE Some(CHOOSE i \in M : \A j \in M : i <= j)

exists_by_name(rows, name) == IsSome(find_by_name(rows, name))

\* A row of the connections table; of its columns the name.
ConnectionRow(name) == [name |-> name]

\* The unique index on the name column, which compares byte by byte.
UniqueKeyViolated(rows, name) == \E i \in 1..Len(rows) : rows[i].name = name

\* The entry of a create call of client p.
CallCreate(p, op, args, pc) ==
  /\ proc[p].pc = "idle"
  /\ calls > 0
  /\ calls' = calls - 1
  /\ proc' = [proc EXCEPT ![p] = [Idle EXCEPT !.pc = pc, !.op = op, !.pre = Some(store),
                                               !.args = Some(args)]]

\* ConnectionService::create
StartCreateConnection(p, name) ==
  /\ CallCreate(p, "create_connection", [name |-> name, stored |-> FALSE], "connection_exists")
  /\ UNCHANGED <<store, db, faults, execLog, snap>>

ConnectionExists(p) ==
  /\ proc[p].pc = "connection_exists"
  /\ proc' = [proc EXCEPT ![p] =
       IF exists_by_name(connections, Unwrap(@.args).name) THEN Ret(@, "already exists")
       ELSE [@ EXCEPT !.pc = "connection_insert"]]
  /\ UNCHANGED <<store, db, calls, faults, execLog, snap>>

\* ConnectionRepository::create
ConnectionInsert(p) ==
  /\ proc[p].pc = "connection_insert"
  /\ LET name == Unwrap(proc[p].args).name IN
     IF UniqueKeyViolated(connections, name)
     THEN /\ proc' = [proc EXCEPT ![p] = Ret(@, "DbErr")]
          /\ UNCHANGED connections
     ELSE /\ connections' = Append(connections, ConnectionRow(name))
          /\ proc' = [proc EXCEPT ![p] = Ret([@ EXCEPT !.args = Some([Unwrap(@) EXCEPT !.stored = TRUE])], "ok")]
  /\ UNCHANGED <<plans, deployments, changesets, changes, rollbacks, db, calls, faults, execLog, snap>>

\* PlanService::create
StartCreatePlan(p, name, source, target, schemas) ==
  /\ CallCreate(p, "create_plan",
                [name |-> name, source |-> source, target |-> target, schemas |-> schemas,
                 source_id |-> 0, target_id |-> 0, stored |-> FALSE],
                "plan_exists")
  /\ UNCHANGED <<store, db, faults, execLog, snap>>

PlanExists(p) ==
  /\ proc[p].pc = "plan_exists"
  /\ proc' = [proc EXCEPT ![p] =
       IF exists_by_name(plans, Unwrap(@.args).name) THEN Ret(@, "already exists")
       ELSE [@ EXCEPT !.pc = "plan_find_source"]]
  /\ UNCHANGED <<store, db, calls, faults, execLog, snap>>

PlanFindSource(p) ==
  /\ proc[p].pc = "plan_find_source"
  /\ LET found == find_by_name(connections, Unwrap(proc[p].args).source) IN
     proc' = [proc EXCEPT ![p] =
       IF ~IsSome(found) THEN Ret(@, "source not found")
       ELSE [@ EXCEPT !.pc = "plan_find_target",
                      !.args = Some([Unwrap(@) EXCEPT !.source_id = Unwrap(found)])]]
  /\ UNCHANGED <<store, db, calls, faults, execLog, snap>>

\* The target is looked up, then the two ids and the schemas are checked.
PlanFindTarget(p) ==
  /\ proc[p].pc = "plan_find_target"
  /\ LET found == find_by_name(connections, Unwrap(proc[p].args).target) IN
     proc' = [proc EXCEPT ![p] =
       IF ~IsSome(found) THEN Ret(@, "target not found")
       ELSE IF Unwrap(@.args).source_id = Unwrap(found) THEN Ret(@, "cannot be the same")
       ELSE IF Unwrap(@.args).schemas = <<>> THEN Ret(@, "no schema")
       ELSE [@ EXCEPT !.pc = "plan_insert",
                      !.args = Some([Unwrap(@) EXCEPT !.target_id = Unwrap(found)])]]
  /\ UNCHANGED <<store, db, calls, faults, execLog, snap>>

\* A row of the plans table as PlanRepository::create inserts it.
PlanRow(a) ==
  [name |-> a.name, schemas |-> a.schemas, source_connection_id |-> a.source_id,
   target_connection_id |-> a.target_id, disable_all_drops |-> TRUE,
   disabled_drop_types |-> None, status |-> "IDLE"]

\* PlanRepository::create
PlanInsert(p) ==
  /\ proc[p].pc = "plan_insert"
  /\ LET a == Unwrap(proc[p].args) IN
     IF UniqueKeyViolated(plans, a.name)
     THEN /\ proc' = [proc EXCEPT ![p] = Ret(@, "DbErr")]
          /\ UNCHANGED plans
     ELSE /\ plans' = Append(plans, PlanRow(a))
          /\ proc' = [proc EXCEPT ![p] = Ret([@ EXCEPT !.args = Some([a EXCEPT !.stored = TRUE])], "ok")]
  /\ UNCHANGED <<deployments, changesets, changes, rollbacks, db, calls, faults, execLog, snap, connections>>

\* ------------------------------------------- the delta module on drawn inputs

\* The column names of the tables drawn for the diff, two of which differ in
\* case only, and the iteration orders of the four HashMaps of one
\* find_scripts call over them.
DiffColNames == {"ID", "A", "a", "B"}
DiffPerms == {f \in Perms(DiffColNames) : f[1] = "ID"}
DiffOrders == [fs : DiffPerms, ft : DiffPerms, rs : DiffPerms, rt : DiffPerms]

\* The tables drawn: ID and any of A, a and B (two definitions), and one
\* table that lists the columns of another in a different order.
DiffTables ==
  {TableDDL(<<IdCol>> \o ca \o cl \o cb) :
     ca \in {<<>>, <<Col("A", "d1")>>},
     cl \in {<<>>, <<Col("a", "d1")>>},
     cb \in {<<>>, <<Col("B", "d1")>>, <<Col("B", "d2")>>}}
  \cup {TableDDL(<<IdCol, Col("B", "d1"), Col("A", "d1")>>)}

\* The lists of disabled drop types drawn.
TokenLists ==
  {None, Some(<<>>), Some(<<"COLUMN">>), Some(<<"column">>), Some(<<"VIEW">>),
   Some(<<"TABLE", "VIEW">>), Some(<<"COLUMN", "VIEW">>)}

\* find_scripts(Some(source), Some(target)) on the two drawn tables.
FindScripts(p) ==
  /\ proc[p].pc = "find_scripts"
  /\ \E o \in DiffOrders :
       LET a == Unwrap(proc[p].args)
           sc == Unwrap(find_scripts(Some(a.source), Some(a.target), o))
       IN proc' = [proc EXCEPT ![p].pc = "exclude",
                               ![p].args = Some([source |-> a.source, target |-> a.target,
                                                 scripts |-> sc.scripts,
                                                 rollback_scripts |-> sc.rollback_scripts])]
  /\ UNCHANGED <<store, db, calls, faults, execLog, snap>>

\* The Delta of the two tables, the Delta of a view that is to be dropped and
\* the Delta of a view that is to be replaced.
DeltasOfDiff(a) ==
  LET drop == Object(ViewKey, Some(ViewDDL("v2")))
      old == Object([object_type |-> "VIEW", object_name |-> "W"], Some(ViewDDL("v2")))
      new == Object([object_type |-> "VIEW", object_name |-> "W"], Some(ViewDDL("v1")))
  IN <<Delta(a.source, a.source.ddl, a.target.ddl,
             Some([scripts |-> a.scripts, rollback_scripts |-> a.rollback_scripts])),
       Delta(drop, None, drop.ddl, find_scripts(None, Some(drop), CHOOSE o \in DiffOrders : TRUE)),
       Delta(new, new.ddl, old.ddl, find_scripts(Some(new), Some(old), CHOOSE o \in DiffOrders : TRUE))>>

\* with_disabled_drop_types_excluded on those Deltas and a drawn token list.
ExcludeDrops(p) ==
  /\ proc[p].pc = "exclude"
  /\ \E tokens \in TokenLists :
       LET a == Unwrap(proc[p].args)
           deltas == DeltasOfDiff(a)
       IN proc' = [proc EXCEPT ![p].pc = "idle", ![p].op = "exclude",
                               ![p].args = Some([deltas |-> deltas, tokens |-> tokens,
                                                 result |-> with_disabled_drop_types_excluded(deltas, tokens)])]
  /\ UNCHANGED <<store, db, calls, faults, execLog, snap>>

\* ------------------------------------------------------------ specifications

EmptyCatalog == [k \in Keys |-> None]
Catalog(t, v) == [k \in Keys |-> IF k = TableKey THEN t ELSE v]

Plan(source, target, all, types) ==
  [source_connection_id |-> source, target_connection_id |-> target,
   disable_all_drops |-> all, disabled_drop_types |-> types, status |-> "IDLE"]

InitCommon ==
  /\ connections = [c \in ConnIds |-> ConnectionRow(<<IF c = 1 THEN "a" ELSE IF c = 2 THEN "b" ELSE "c">>)]
  /\ deployments = <<>>
  /\ changesets = <<>>
  /\ changes = <<>>
  /\ rollbacks = <<>>
  /\ execLog = <<>>
  /\ snap = <<>>

\* Two clients; two plans that deploy the same source schema to two targets.
Init ==
  /\ InitCommon
  /\ calls = MaxCalls
  /\ faults = MaxFaults
  /\ plans = [i \in PlanIds |-> Plan(1, i + 1, FALSE, None)]
  /\ db = [c \in ConnIds |->
             IF c = 1 THEN Catalog(Some(TableDDL(<<IdCol, Col("A", "d1")>>)), None)
             ELSE Catalog(Some(TableDDL(<<IdCol>>)), None)]
  /\ proc = [p \in Procs |-> Idle]

\* The drop settings of a plan: (disable_all_drops, disabled_drop_types).
DropSettings ==
  {<<FALSE, None>>, <<FALSE, Some(<<"COLUMN">>)>>, <<FALSE, Some(<<"VIEW">>)>>, <<TRUE, None>>}

SeqSourceTables ==
  {None, Some(TableDDL(<<IdCol>>)), Some(TableDDL(<<IdCol, Col("A", "d2")>>)),
   Some(TableDDL(<<IdCol, Col("A", "d2"), Col("B", "d1")>>))}
SeqTargetTables ==
  {None, Some(TableDDL(<<IdCol>>)), Some(TableDDL(<<IdCol, Col("B", "d1")>>)),
   Some(TableDDL(<<IdCol, Col("A", "d1"), Col("B", "d1")>>))}
\* (source, target) DDL of the view: to create, to drop, to replace.
SeqViews == {<<Some(ViewDDL("v1")), None>>, <<None, Some(ViewDDL("v2"))>>,
             <<Some(ViewDDL("v1")), Some(ViewDDL("v2"))>>}

\* One client and no failure from outside; any source and target schema;
\* plan 1 with any drop settings and plan 2, a full synchronisation, over the
\* same pair of connections.
InitSeq ==
  /\ InitCommon
  /\ calls = MaxCallsSeq
  /\ faults = 0
  /\ \E ds \in DropSettings :
       plans = [i \in PlanIds |-> IF i = 1 THEN Plan(1, 2, ds[1], ds[2]) ELSE Plan(1, 2, FALSE, None)]
  /\ \E st \in SeqSourceTables, tt \in SeqTargetTables, v \in SeqViews :
       db = [c \in ConnIds |-> IF c = 1 THEN Catalog(st, v[1])
                               ELSE IF c = 2 THEN Catalog(tt, v[2]) ELSE EmptyCatalog]
  /\ proc = [p \in Procs |-> IF p = 1 THEN Idle ELSE Off]

\* One client and one plan, of id 1; the source has table T with columns A and
\* B and view V, the target has table T without them and no view: a
\* deployment of two changesets and three changes.
InitRec ==
  /\ InitCommon
  /\ calls = MaxCallsRec
  /\ faults = MaxFaults
  /\ plans = [i \in {1} |-> Plan(1, 2, FALSE, None)]
  /\ db = [c \in ConnIds |->
             IF c = 1 THEN Catalog(Some(TableDDL(<<IdCol, Col("A", "d2"), Col("B", "d1")>>)),
                                   Some(ViewDDL("v1")))
             ELSE IF c = 2 THEN Catalog(Some(TableDDL(<<IdCol>>)), None)
             ELSE EmptyCatalog]
  /\ proc = [p \in Procs |-> IF p = 1 THEN Idle ELSE Off]

\* One client, any source and target schema and any drop settings of plan 1,
\* as in InitSeq; a connection may fail to open.
InitDry ==
  /\ InitCommon
  /\ calls = MaxCallsDry
  /\ faults = MaxFaults
  /\ \E ds \in DropSettings :
       plans = [i \in PlanIds |-> IF i = 1 THEN Plan(1, 2, ds[1], ds[2]) ELSE Plan(1, 2, FALSE, None)]
  /\ \E st \in SeqSourceTables, tt \in SeqTargetTables, v \in SeqViews :
       db = [c \in ConnIds |-> IF c = 1 THEN Catalog(st, v[1])
                               ELSE IF c = 2 THEN Catalog(tt, v[2]) ELSE EmptyCatalog]
  /\ proc = [p \in Procs |-> IF p = 1 THEN Idle ELSE Off]

\* The names the clients give to new plans and connections, the names by
\* which they refer to connections, and the schema lists.
Names == {<<"a">>, <<"A">>, <<"_">>}
ConnectionNames == {<<"b">>, <<"c">>, <<"_">>}
SchemaLists == {<<>>, <<"HR">>}

\* Two clients; connections b and c exist, no plan does.
InitCreate ==
  /\ plans = <<>>
  /\ connections = <<ConnectionRow(<<"b">>), ConnectionRow(<<"c">>)>>
  /\ deployments = <<>>
  /\ changesets = <<>>
  /\ changes = <<>>
  /\ rollbacks = <<>>
  /\ execLog = <<>>
  /\ snap = <<>>
  /\ calls = MaxCreates
  /\ faults = 0
  /\ db = [c \in ConnIds |-> EmptyCatalog]
  /\ proc = [p \in Procs |-> Idle]

\* Two operators who create connections and plans at the same time.
NextCreate ==
  \E p \in Procs :
    \/ \E name \in Names : StartCreateConnection(p, name)
    \/ ConnectionExists(p)
    \/ ConnectionInsert(p)
    \/ \E name \in Names, source \in ConnectionNames, target \in ConnectionNames,
          schemas \in SchemaLists :
         StartCreatePlan(p, name, source, target, schemas)
    \/ PlanExists(p)
    \/ PlanFindSource(p)
    \/ PlanFindTarget(p)
    \/ PlanInsert(p)

Next ==
  \E p \in Procs :
    \/ \E plan_id \in PlanIds, fail_fast \in BOOLEAN : StartRun(p, plan_id, fail_fast)
    \/ \E plan_id \in PlanIds : StartPrepare(p, plan_id)
    \/ Prepare(p)
    \/ PrepareStatus(p)
    \/ RunPrepareErr(p)
    \/ \E d \in 1..MaxDeployments, fail_fast \in BOOLEAN : StartApply(p, d, fail_fast)
    \/ ApplyValidate(p)
    \/ ApplySetPlanRunning(p)
    \/ ApplySetDeploymentRunning(p)
    \/ ApplyFetch(p)
    \/ ApplyChangesetStart(p)
    \/ ApplyChangeStart(p)
    \/ ApplyExecute(p)
    \/ ApplyChangeSave(p)
    \/ ApplyChangesetEnd(p)
    \/ RunOkDeployment(p)
    \/ RunOkPlan(p)
    \/ RunErrPlan(p)
    \/ RunErrDeployment(p)
    \/ \E plan_id \in PlanIds : StartRollback(p, plan_id)
    \/ RollbackFind(p)
    \/ PrepareRollback(p)
    \/ RollbackFetch(p)
    \/ RollbackSetPlan(p)
    \/ RollbackSetDeployment(p)
    \/ RollbackRunning(p)
    \/ RollbackExecute(p)
    \/ RollbackChange(p)
    \/ RollbackStatus(p)
    \/ RollbackFailDeployment(p)
    \/ RollbackFailPlan(p)
    \/ RollbackDoneDeployment(p)
    \/ RollbackDonePlan(p)
    \/ \E plan_id \in PlanIds : Reset(p, plan_id)
    \/ Crash(p)

\* One operator who runs plans, fail-fast, and rolls them back.  No statement
\* of a run fails when nothing else touches the target in between, so run's
\* error branch is not among the steps.
NextSeq ==
  \E p \in Procs :
    \/ \E plan_id \in PlanIds : StartRun(p, plan_id, TRUE)
    \/ Prepare(p)
    \/ PrepareStatus(p)
    \/ ApplyValidate(p)
    \/ ApplySetPlanRunning(p)
    \/ ApplySetDeploymentRunning(p)
    \/ ApplyFetch(p)
    \/ ApplyChangesetStart(p)
    \/ ApplyChangeStart(p)
    \/ ApplyExecute(p)
    \/ ApplyChangeSave(p)
    \/ ApplyChangesetEnd(p)
    \/ RunOkDeployment(p)
    \/ RunOkPlan(p)
    \/ \E plan_id \in PlanIds : StartRollback(p, plan_id)
    \/ RollbackFind(p)
    \/ PrepareRollback(p)
    \/ RollbackFetch(p)
    \/ RollbackSetPlan(p)
    \/ RollbackSetDeployment(p)
    \/ RollbackRunning(p)
    \/ RollbackExecute(p)
    \/ RollbackChange(p)
    \/ RollbackStatus(p)
    \/ RollbackFailDeployment(p)
    \/ RollbackFailPlan(p)
    \/ RollbackDoneDeployment(p)
    \/ RollbackDonePlan(p)

\* One operator who runs plan 1, applies its deployments again and rolls them
\* back, while statements may be rejected and calls may die half-way.
NextRec ==
  \E p \in Procs :
    \/ \E fail_fast \in BOOLEAN : StartRun(p, 1, fail_fast)
    \/ Prepare(p)
    \/ PrepareStatus(p)
    \/ RunPrepareErr(p)
    \/ \E d \in 1..MaxDeployments, fail_fast \in BOOLEAN : StartApply(p, d, fail_fast)
    \/ ApplyValidate(p)
    \/ ApplySetPlanRunning(p)
    \/ ApplySetDeploymentRunning(p)
    \/ ApplyFetch(p)
    \/ ApplyChangesetStart(p)
    \/ ApplyChangeStart(p)
    \/ ApplyExecute(p)
    \/ ApplyChangeSave(p)
    \/ ApplyChangesetEnd(p)
    \/ RunOkDeployment(p)
    \/ RunOkPlan(p)
    \/ RunErrPlan(p)
    \/ RunErrDeployment(p)
    \/ StartRollback(p, 1)
    \/ RollbackFind(p)
    \/ PrepareRollback(p)
    \/ RollbackFetch(p)
    \/ RollbackSetPlan(p)
    \/ RollbackSetDeployment(p)
    \/ RollbackRunning(p)
    \/ RollbackExecute(p)
    \/ RollbackChange(p)
    \/ RollbackStatus(p)
    \/ RollbackFailDeployment(p)
    \/ RollbackFailPlan(p)
    \/ RollbackDoneDeployment(p)
    \/ RollbackDonePlan(p)
    \/ Crash(p)

\* One operator who prepares plan 1, dry or live, and runs it dry.
NextDry ==
  \E p \in Procs :
    \/ StartPrepare(p, 1)
    \/ StartPrepareDry(p, 1)
    \/ StartRunDry(p, 1)
    \/ Prepare(p)
    \/ PrepareStatus(p)
    \/ RunPrepareErr(p)

Spec == Init /\ [][Next]_vars
SpecSeq == InitSeq /\ [][NextSeq]_vars
SpecRec == InitRec /\ [][NextRec]_vars
SpecDry == InitDry /\ [][NextDry]_vars
SpecCreate == InitCreate /\ [][NextCreate]_vars

\* One client that diffs two drawn tables and filters the Deltas.
InitDiff ==
  /\ InitCommon
  /\ plans = <<>>
  /\ calls = 0
  /\ faults = 0
  /\ db = [c \in ConnIds |-> EmptyCatalog]
  /\ \E s \in DiffTables, t \in DiffTables :
       proc = [p \in Procs |->
                 IF p = 1 THEN [Idle EXCEPT !.pc = "find_scripts", !.op = "find_scripts",
                                            !.args = Some([source |-> Object(TableKey, Some(s)),
                                                           target |-> Object(TableKey, Some(t))])]
                 ELSE Off]

NextDiff == \E p \in Procs : FindScripts(p) \/ ExcludeDrops(p)

SpecDiff == InitDiff /\ [][NextDiff]_vars

\* Two clients that run and apply the one plan, whose deployment has three
\* Changes; no process dies and no statement fails from outside.
InitRace ==
  /\ InitCommon
  /\ calls = MaxCallsRace
  /\ faults = 0
  /\ plans = [i \in {1} |-> Plan(1, 2, FALSE, None)]
  /\ db = [c \in ConnIds |->
             IF c = 1 THEN Catalog(Some(TableDDL(<<IdCol, Col("A", "d2"), Col("B", "d1")>>)), None)
             ELSE IF c = 2 THEN Catalog(Some(TableDDL(<<IdCol>>)), None)
             ELSE EmptyCatalog]
  /\ proc = [p \in Procs |-> Idle]

NextRace ==
  \E p \in Procs :
    \/ \E fail_fast \in BOOLEAN : StartRun(p, 1, fail_fast)
    \/ Prepare(p)
    \/ PrepareStatus(p)
    \/ \E d \in 1..MaxDeployments, fail_fast \in BOOLEAN : StartApply(p, d, fail_fast)
    \/ ApplyValidate(p)
    \/ ApplySetPlanRunning(p)
    \/ ApplySetDeploymentRunning(p)
    \/ ApplyFetch(p)
    \/ ApplyChangesetStart(p)
    \/ ApplyChangeStart(p)
    \/ ApplyExecute(p)
    \/ ApplyChangeSave(p)
    \/ ApplyChangesetEnd(p)
    \/ RunOkDeployment(p)
    \/ RunOkPlan(p)
    \/ RunErrPlan(p)
    \/ RunErrDeployment(p)

SpecRace == InitRace /\ [][NextRace]_vars

\* A step of a run that client p has started: every await of run, prepare and
\* apply is answered, with a result or with an error.
RunStep(p) ==
  \/ Prepare(p)
  \/ PrepareStatus(p)
  \/ RunPrepareErr(p)
  \/ ApplyValidate(p)
  \/ ApplySetPlanRunning(p)
  \/ ApplySetDeploymentRunning(p)
  \/ ApplyFetch(p)
  \/ ApplyChangesetStart(p)
  \/ ApplyChangeStart(p)
  \/ ApplyExecute(p)
  \/ ApplyChangeSave(p)
  \/ ApplyChangesetEnd(p)
  \/ RunOkDeployment(p)
  \/ RunOkPlan(p)
  \/ RunErrPlan(p)
  \/ RunErrDeployment(p)

\* One operator who runs plan 1 again and again; a connection may fail to
\* open and the target may reject a statement, but the store and the client
\* answer every request and the process is never cancelled: a run that can
\* take a step takes it.
NextLive ==
  \E p \in Procs :
    \/ \E fail_fast \in BOOLEAN : StartRun(p, 1, fail_fast)
    \/ RunStep(p)

SpecLive == InitRec /\ [][NextLive]_vars /\ \A p \in Procs : WF_vars(RunStep(p))


\* ------------------------------------------------------ claims C1 to C5

Connections(i) == {plans[i].source_connection_id, plans[i].target_connection_id}

\* C1: under any interleaving of concurrent run and apply calls on different
\* plans, no two plans in status RUNNING share a connection, as source or as
\* target of either plan.
C1_RunningPlansShareNoConnection ==
  \A i, j \in PlanIds :
    i # j /\ plans[i].status = "RUNNING" /\ plans[j].status = "RUNNING"
      => Connections(i) \cap Connections(j) = {}

\* C2: for every deployment in status RUNNING no other deployment in status
\* RUNNING belongs to a plan that uses the source or target connection of its
\* plan, another deployment of the same plan included.
C2_RunningDeploymentsShareNoConnection ==
  \A d, e \in 1..Len(deployments) :
    d # e /\ deployments[d].status = "RUNNING" /\ deployments[e].status = "RUNNING"
      => Connections(deployments[d].plan_id) \cap Connections(deployments[e].plan_id) = {}

PlanIsNotRunnable == {"PlanIsAlreadyRunning", "SourceConnectionInUse", "TargetConnectionInUse"}

\* The other clients have started no call: what the store holds beyond the
\* snapshot client p took when its call began is that call's work.
Alone(p) == \A q \in Procs \ {p} : proc[q].op = "none"

\* C3: when run or apply has been rejected with PlanIsNotRunnable, the plans,
\* deployments, changesets, changes (and rollbacks) tables equal what they
\* were when the call began.
C3_RejectedCallLeavesStoreUnchanged ==
  \A p \in Procs :
    /\ proc[p].pc = "idle"
    /\ proc[p].op \in {"run", "apply"}
    /\ proc[p].result \in PlanIsNotRunnable
    /\ Alone(p)
    => store = Unwrap(proc[p].pre)

\* The status plan_id had when the current or last call of client p began.
StatusAtCall(p) == Unwrap(proc[p].pre)[1][proc[p].plan_id].status

ExecutingPcs == {"apply_ch_start", "apply_exec", "apply_ch_save"}

\* C4: a run invoked for a plan whose status is RUNNING leaves the plan
\* RUNNING, executes no change script, and when it returns it has failed with
\* PlanIsAlreadyRunning.
C4_RunOnRunningPlanIsRejected ==
  \A p \in Procs :
    proc[p].op = "run" /\ proc[p].result # "crashed" /\ Alone(p) /\ StatusAtCall(p) = "RUNNING"
    => /\ plans[proc[p].plan_id].status = "RUNNING"
       /\ proc[p].pc \notin ExecutingPcs
       /\ proc[p].pc = "idle" => proc[p].result = "PlanIsAlreadyRunning"

DeploymentEdges ==
  {<<"IDLE", "RUNNING">>, <<"RUNNING", "SUCCESS">>, <<"RUNNING", "ERROR">>,
   <<"SUCCESS", "ROLLING_BACK">>, <<"ROLLING_BACK", "ROLLED_BACK">>,
   <<"ROLLING_BACK", "ROLLBACK_ERROR">>}
PlanEdges == DeploymentEdges \cup {<<"RUNNING", "IDLE">>}

\* C5: in every step, a plan whose status changes follows one of the edges of
\* PlanEdges, and a deployment whose status changes one of DeploymentEdges.
C5_OnlySpecifiedStatusEdges ==
  [][/\ \A i \in PlanIds :
          plans'[i].status # plans[i].status => <<plans[i].status, plans'[i].status>> \in PlanEdges
     /\ \A d \in 1..Len(deployments) :
          deployments'[d].status # deployments[d].status
            => <<deployments[d].status, deployments'[d].status>> \in DeploymentEdges]_vars


\* ------------------------------------------------------ claims C6 to C10

\* The definition column col has in a DDL text.
DefinitionIn(ddl, col) == ColumnMap(ddl)[col]

\* r undoes f, for an object whose DDL on the target was target_ddl.
IsInverse(f, r, target_ddl) ==
  /\ r.object_type = f.object_type
  /\ r.object_name = f.object_name
  /\ CASE f.op = "DDL" /\ ~IsSome(target_ddl) -> r.op = "DROP"
       [] f.op = "DDL" /\ IsSome(target_ddl) -> r.op = "DDL" /\ r.ddl = target_ddl
       [] f.op = "DROP" -> r.op = "DDL" /\ r.ddl = target_ddl
       [] f.op = "ADD" -> r.op = "DROPCOL" /\ r.col = f.col
       [] f.op = "DROPCOL" ->
            r.op = "ADD" /\ r.col = f.col /\ r.def = DefinitionIn(Unwrap(target_ddl), f.col)
       [] f.op = "MODIFY" ->
            r.op = "MODIFY" /\ r.col = f.col /\ r.def = DefinitionIn(Unwrap(target_ddl), f.col)
       [] OTHER -> FALSE

DeploymentOf(c) == changesets[changes[c].changeset_id].deployment_id
PlanOf(d) == plans[deployments[d].plan_id]

\* C6: the rollback_script of every Change row is the inverse of the script of
\* that same row (no script text of the model is empty).  Stated for the
\* plans without disable_all_drops, whose deltas come from find_deltas and
\* with_disabled_drop_types_excluded as the source has them.
C6_ChangePairsScriptWithItsInverse ==
  \A c \in 1..Len(changes) :
    ~PlanOf(DeploymentOf(c)).disable_all_drops
      => IsInverse(changes[c].script, changes[c].rollback_script,
                   changesets[changes[c].changeset_id].target_ddl)

\* C7: every delta of find_deltas followed by with_disabled_drop_types_excluded
\* has as many rollback scripts as scripts, and its rollback scripts are the
\* inverses of its scripts.
C7_DeltaListsAreInverseSets ==
  \A p \in Procs :
    proc[p].pc = "prepare_status" /\ ~plans[proc[p].plan_id].disable_all_drops
    => \A i \in 1..Len(proc[p].deltas) :
         LET delta == proc[p].deltas[i] IN
         /\ Len(delta.scripts) = Len(delta.rollback_scripts)
         /\ \A f \in Range(delta.scripts) :
              \E r \in Range(delta.rollback_scripts) : IsInverse(f, r, delta.target_ddl)
         /\ \A r \in Range(delta.rollback_scripts) :
              \E f \in Range(delta.scripts) : IsInverse(f, r, delta.target_ddl)

\* The scripts of a delta depend on the orders of the forward call only.
ForwardOrders == {o \in DrawnOrders : o.rs = o.fs /\ o.rt = o.ft}

\* Diffing catalog target against catalog source yields no delta with scripts,
\* whatever the iteration orders.
NoDelta(source, target) ==
  \A o \in ForwardOrders :
    LET deltas == find_deltas(get_objects_with_ddls(source), get_objects_with_ddls(target), o)
    IN \A i \in 1..Len(deltas) : deltas[i].scripts = <<>>

\* The statements executed since the first apply of deployment d began.
Since(d) == SubSeq(execLog, Unwrap(snap[d]).at + 1, Len(execLog))
\* All of them are statements of d.
OnlyOf(d) == \A i \in 1..Len(Since(d)) : DeploymentOf(Since(d)[i].change) = d

TargetOf(d) == db[PlanOf(d).target_connection_id]
SourceOf(d) == db[PlanOf(d).source_connection_id]

\* The rollback call of client p has returned Ok, having rolled deployment d
\* back: every rollback script succeeded and nothing has been executed since.
RolledBack(p, d) ==
  /\ proc[p].pc = "idle" /\ proc[p].op = "rollback" /\ proc[p].result = "ok"
  /\ proc[p].deployment_id = d
  /\ deployments[d].status = "ROLLED_BACK"
  /\ execLog[Len(execLog)].kind = "rollback"
  /\ DeploymentOf(execLog[Len(execLog)].change) = d

\* C8, as stated: after the rollback of a deployment that reached SUCCESS,
\* with every rollback script succeeding, diffing the target against the
\* snapshot taken before the deployment was applied yields no delta with
\* scripts.
C8_RollbackRestoresSnapshot ==
  \A p \in Procs, d \in 1..Len(deployments) :
    RolledBack(p, d) => NoDelta(Unwrap(snap[d]).cat, TargetOf(d))

\* C8, amended: the same, provided no statement of another deployment was
\* executed on the target between the snapshot and the end of the rollback.
C8_RollbackRestoresSnapshotUndisturbed ==
  \A p \in Procs, d \in 1..Len(deployments) :
    RolledBack(p, d) /\ OnlyOf(d) => NoDelta(Unwrap(snap[d]).cat, TargetOf(d))

C8_Witness ==
  \E p \in Procs, d \in 1..Len(deployments) :
    /\ RolledBack(p, d) /\ OnlyOf(d)
    /\ Len(Since(d)) >= 4
    /\ PlanOf(d).disabled_drop_types # None

\* The apply of deployment d by client p has just returned Ok: every change
\* succeeded and no other statement was executed meanwhile.
JustApplied(p, d) ==
  /\ proc[p].deployment_id = d
  /\ \/ proc[p].pc = "run_ok_dep"
     \/ proc[p].pc = "idle" /\ proc[p].op = "apply" /\ proc[p].result = "ok"
  /\ OnlyOf(d)
  /\ \A i \in 1..Len(Since(d)) : Since(d)[i].kind = "apply" /\ Since(d)[i].ok
  /\ \A c \in 1..Len(changes) : DeploymentOf(c) = d => changes[c].status = "SUCCESS"

NoDropDisabled(plan) == ~plan.disable_all_drops /\ plan.disabled_drop_types \in {None, Some(<<>>)}

\* C9: after a deployment of a plan with no drop disabled has been applied,
\* every change succeeding, diffing the target against the source yields no
\* delta with scripts.
C9_ApplyIsIdempotent ==
  \A p \in Procs, d \in 1..Len(deployments) :
    JustApplied(p, d) /\ NoDropDisabled(PlanOf(d)) => NoDelta(SourceOf(d), TargetOf(d))

C9_Witness ==
  \E p \in Procs, d \in 1..Len(deployments) :
    /\ JustApplied(p, d) /\ NoDropDisabled(PlanOf(d))
    /\ Len(Since(d)) >= 3

\* C10: the rollbacks of a deployment are executed in the reverse of the order
\* in which apply executed its changes: a before b in apply means the
\* rollback of b before the rollback of a.
C10_RollbacksRunInReverseOrder ==
  \A i, j, k, l \in 1..Len(execLog) :
    /\ execLog[i].kind = "apply" /\ execLog[j].kind = "apply" /\ i < j
    /\ execLog[k].kind = "rollback" /\ execLog[k].change = execLog[i].change
    /\ execLog[l].kind = "rollback" /\ execLog[l].change = execLog[j].change
    /\ DeploymentOf(execLog[i].change) = DeploymentOf(execLog[j].change)
    => l < k


\* ------------------------------------------------------ claims C11 to C20

\* The Rollback rows of deployment d.
RollbacksOf(d) == {r \in 1..Len(rollbacks) : DeploymentOf(rollbacks[r].change_id) = d}
\* The rollback statements of deployment d executed so far.
RollbackRuns(d) ==
  {i \in 1..Len(execLog) : execLog[i].kind = "rollback" /\ DeploymentOf(execLog[i].change) = d}

\* The rollback call of client p is over and a rollback script of the
\* deployment it selected has failed.
RollbackFailed(p, d) ==
  /\ proc[p].pc = "idle" /\ proc[p].op = "rollback" /\ proc[p].result # "crashed"
  /\ proc[p].deployment_id = d
  /\ \E i \in RollbackRuns(d) : ~execLog[i].ok

\* C11: when a rollback script has failed, the call returns the error; the
\* failed Rollback is ERROR with the message and its Change ROLLBACK_ERROR;
\* deployment and plan are ROLLBACK_ERROR; every Rollback before it is SUCCESS
\* with its Change ROLLED_BACK; every Rollback after it is IDLE, its Change
\* SUCCESS, and it was never executed.
C11_RollbackStopsAtFirstFailure ==
  \A p \in Procs, d \in 1..Len(deployments) :
    RollbackFailed(p, d) =>
      /\ proc[p].result = "RollbackError"
      /\ deployments[d].status = "ROLLBACK_ERROR"
      /\ plans[deployments[d].plan_id].status = "ROLLBACK_ERROR"
      /\ \E r \in RollbacksOf(d) :
           /\ rollbacks[r].status = "ERROR" /\ rollbacks[r].error # None
           /\ changes[rollbacks[r].change_id].status = "ROLLBACK_ERROR"
           /\ \A q \in RollbacksOf(d) :
                /\ q < r => /\ rollbacks[q].status = "SUCCESS"
                            /\ changes[rollbacks[q].change_id].status = "ROLLED_BACK"
                /\ q > r => /\ rollbacks[q].status = "IDLE"
                            /\ changes[rollbacks[q].change_id].status = "SUCCESS"
           /\ Cardinality(RollbackRuns(d)) = Cardinality({q \in RollbacksOf(d) : q <= r})

\* The Change rows of deployment d.
ChangesOfDeployment(d) == {c \in 1..Len(changes) : DeploymentOf(c) = d}

\* The rollback call of client p has returned Ok, having selected deployment d.
RollbackReturnedOk(p, d) ==
  /\ proc[p].pc = "idle" /\ proc[p].op = "rollback" /\ proc[p].result = "ok"
  /\ proc[p].deployment_id = d

\* C12: when rollback has returned Ok, the deployment it selected and its plan
\* are ROLLED_BACK, every Rollback row of the deployment is SUCCESS and every
\* Change of it ROLLED_BACK, a deployment without changes included.
C12_OkRollbackLeavesRolledBack ==
  \A p \in Procs, d \in 1..Len(deployments) :
    RollbackReturnedOk(p, d) =>
      /\ deployments[d].status = "ROLLED_BACK"
      /\ plans[deployments[d].plan_id].status = "ROLLED_BACK"
      /\ \A r \in RollbacksOf(d) : rollbacks[r].status = "SUCCESS"
      /\ \A c \in ChangesOfDeployment(d) : changes[c].status = "ROLLED_BACK"

\* C13: once a rollback call has returned, every Change that has a Rollback
\* row in status SUCCESS has status ROLLED_BACK, whatever rollback calls were
\* made on the plan before.
C13_SucceededRollbackMeansRolledBack ==
  \A p \in Procs :
    proc[p].pc = "idle" /\ proc[p].op = "rollback" /\ proc[p].result # "crashed"
    => \A r \in 1..Len(rollbacks) :
         rollbacks[r].status = "SUCCESS" => changes[rollbacks[r].change_id].status = "ROLLED_BACK"

\* The deployments table when the current or last call of client p began.
DeploymentsAtCall(p) == Unwrap(proc[p].pre)[2]
\* The Rollback rows created since then.
RollbacksSinceCall(p) == {r \in 1..Len(rollbacks) : r > Len(Unwrap(proc[p].pre)[5])}
\* The SUCCESS deployments the plan of that call had when it began.
SuccessfulAtCall(p) ==
  {i \in 1..Len(DeploymentsAtCall(p)) :
     DeploymentsAtCall(p)[i].plan_id = proc[p].plan_id /\ DeploymentsAtCall(p)[i].status = "SUCCESS"}

\* C14: a rollback call that found store and target reachable fails on the
\* selection exactly when the plan has no SUCCESS deployment; otherwise it
\* creates and executes Rollbacks for every Change of the plan's latest SUCCESS
\* deployment and for no other, whatever the ids of plan and deployment.
C14_RollbackSelectsLastSuccessful ==
  \A p \in Procs :
    /\ proc[p].pc = "idle" /\ proc[p].op = "rollback"
    /\ proc[p].result \notin {"crashed", "connect_error"}
    => IF SuccessfulAtCall(p) = {}
       THEN proc[p].result = "NoSuccessfulDeployment" /\ RollbacksSinceCall(p) = {}
       ELSE LET d == CHOOSE i \in SuccessfulAtCall(p) : \A j \in SuccessfulAtCall(p) : j <= i IN
            /\ proc[p].result \in {"ok", "RollbackError"}
            /\ \A r \in RollbacksSinceCall(p) : DeploymentOf(rollbacks[r].change_id) = d
            /\ \A c \in ChangesOfDeployment(d) :
                 \E r \in RollbacksSinceCall(p) : rollbacks[r].change_id = c

\* The Changes of deployment d in the order apply executes them.
ApplyOrder(d) == Flatten(MapSeq(get_by_deployment_id_with_changes(d), LAMBDA w : w.changes))
\* The position of Change c in a list of Change ids.
PositionIn(order, c) == CHOOSE k \in 1..Len(order) : order[k] = c

\* The apply of deployment d by client p, called directly or by run, has just
\* returned DeployError.
ApplyFailed(p, d) ==
  /\ proc[p].deployment_id = d
  /\ proc[p].result = "DeployError"
  /\ \/ proc[p].pc = "run_err_plan"
     \/ proc[p].pc = "idle" /\ proc[p].op = "apply"

\* The status Change c had when the current or last call of client p began:
\* a Change the call itself created began as IDLE.
ChangeStatusAtCall(p, c) ==
  LET before == Unwrap(proc[p].pre)[4]
  IN IF c <= Len(before) THEN before[c].status ELSE "IDLE"

\* What C15 says of a failed fail-fast apply, but for the Changes after the
\* failed one, whose status must be in Later(c).
FailFastOutcome(p, d, Later(_)) ==
  LET c == proc[p].errors[1].change
      order == ApplyOrder(d)
  IN /\ proc[p].count = 1 /\ Len(proc[p].errors) = 1
     /\ changes[c].status = "ERROR" /\ changes[c].error # None
     /\ changesets[changes[c].changeset_id].status = "RUNNING"
     /\ execLog[Len(execLog)] = [kind |-> "apply", change |-> c, ok |-> FALSE]
     /\ \A k \in 1..Len(order) : k > PositionIn(order, c) => changes[order[k]].status = Later(order[k])

RunsInCall(p, c) ==
  {i \in 1..Len(execLog) : i > proc[p].log_at /\ execLog[i].kind = "apply" /\ execLog[i].change = c}
FailedInCall(p, c) == \E i \in RunsInCall(p, c) : ~execLog[i].ok

\* The apply of deployment d by client p, called directly or by run, has
\* gone through its loop and just returned.
ApplyReturned(p, d) ==
  /\ proc[p].deployment_id = d
  /\ \/ proc[p].pc \in {"run_ok_dep", "run_err_plan"}
     \/ proc[p].pc = "idle" /\ proc[p].op = "apply"
  /\ proc[p].result \in {"ok", "DeployError"}

\* The error texts of the failed Changes of a list of Change ids, in order.
ErrorsOf(p, d, ids) ==
  MapSeq(SelectSeq(ids, LAMBDA c : FailedInCall(p, c)),
         LAMBDA c : ErrorMsg(c, changesets[changes[c].changeset_id].object_name, "ORA"))

\* What apply without fail_fast leaves of deployment d when it returns to
\* client p, for the changesets that Counted holds of: every Change executed
\* once and SUCCESS or ERROR by its outcome, every counted Changeset SUCCESS
\* or ERROR with the errors of its Changes, and the result Ok or DeployError
\* with the number of failed Changes.
AccumulatedOutcome(p, d, Counted(_)) ==
    ApplyReturned(p, d) /\ ~proc[p].fail_fast =>
      LET failed == {c \in ChangesOfDeployment(d) : FailedInCall(p, c)} IN
      /\ \A c \in ChangesOfDeployment(d) :
           /\ Cardinality(RunsInCall(p, c)) = 1
           /\ changes[c].status = IF c \in failed THEN "ERROR" ELSE "SUCCESS"
      /\ \A cs \in 1..Len(changesets) :
           changesets[cs].deployment_id = d /\ Counted(cs) =>
             IF \E c \in failed : changes[c].changeset_id = cs
             THEN /\ changesets[cs].status = "ERROR"
                  /\ changesets[cs].errors = Some(ErrorsOf(p, d, ChangesOf(cs)))
             ELSE changesets[cs].status = "SUCCESS"
      /\ IF failed = {} THEN proc[p].result = "ok"
         ELSE proc[p].result = "DeployError" /\ proc[p].count = Cardinality(failed)

RunApplyFailed(p, d) ==
  /\ proc[p].pc = "idle" /\ proc[p].op = "run"
  /\ proc[p].deployment_id = d
  /\ proc[p].result \notin {"ok", "none", "crashed"}

\* C17: after a run whose apply failed, with fail_fast or without, the
\* Deployment is ERROR and its errors list the failed Changes, the Plan is
\* ERROR, every failed Change is ERROR with its error, and every Changeset
\* holding a failed Change is ERROR with the errors of its Changes.
C17_FailedRunRecordsErrors ==
  \A p \in Procs, d \in 1..Len(deployments) :
    RunApplyFailed(p, d) =>
      LET failed == {c \in ChangesOfDeployment(d) : FailedInCall(p, c)} IN
      /\ deployments[d].status = "ERROR"
      /\ failed # {} => deployments[d].errors = Some(ErrorsOf(p, d, ApplyOrder(d)))
      /\ plans[deployments[d].plan_id].status = "ERROR"
      /\ \A c \in failed : changes[c].status = "ERROR" /\ changes[c].error = Some("ORA")
      /\ \A cs \in 1..Len(changesets) :
           (\E c \in failed : changes[c].changeset_id = cs) =>
             /\ changesets[cs].status = "ERROR"
             /\ changesets[cs].errors = Some(ErrorsOf(p, d, ChangesOf(cs)))

TerminalStatuses == {"SUCCESS", "ERROR", "ROLLED_BACK", "ROLLBACK_ERROR"}

\* C18: in every state the ended_at of a Deployment is set if and only if its
\* status is SUCCESS, ERROR, ROLLED_BACK or ROLLBACK_ERROR.
C18_EndedAtIffTerminal ==
  \A d \in 1..Len(deployments) :
    deployments[d].ended_at <=> deployments[d].status \in TerminalStatuses

\* The dry prepare or run of client p has returned none.
DryReturned(p) ==
  /\ proc[p].pc = "idle" /\ proc[p].dry
  /\ proc[p].op \in {"prepare", "run"}
  /\ proc[p].result = "none"

\* C19: a dry prepare or run that returns none has left the State Store as
\* it was at the call, no row created and no Plan status changed, and has
\* executed nothing on the target.
C19_DryRunLeavesStoreUnchanged ==
  \A p \in Procs :
    DryReturned(p) => store = Unwrap(proc[p].pre) /\ Len(execLog) = proc[p].log_at

\* The Changes that the live prepare of client p has just created, by id.
CreatedChanges(p) ==
  IF proc[p].prep = "ok" THEN SortIds(ChangesOfDeployment(proc[p].deployment_id)) ELSE <<>>

\* The live prepare of client p has created its rows, for the plan and the
\* catalogs that the client's last dry prepare has written its scripts for.
LiveAfterDry(p) ==
  /\ proc[p].pc = "prepare_status" /\ ~proc[p].dry
  /\ proc[p].prep \in {"ok", "none"}
  /\ IsSome(proc[p].sink)
  /\ Unwrap(proc[p].sink).plan_id = proc[p].plan_id
  /\ Unwrap(proc[p].sink).db = db

\* C20: for the same Plan and the same catalogs, the forward scripts a dry
\* prepare writes are, in content and order, the script fields of the Changes
\* a live prepare creates, and the rollback scripts it writes are their
\* rollback_script fields.
C20_DryRunFidelity ==
  \A p \in Procs :
    LiveAfterDry(p) =>
      /\ Unwrap(proc[p].sink).scripts =
           MapSeq(CreatedChanges(p), LAMBDA c : normalize_sql(changes[c].script))
      /\ Unwrap(proc[p].sink).rollback_scripts =
           MapSeq(CreatedChanges(p), LAMBDA c : normalize_sql(changes[c].rollback_script))

\* ------------------------------------------------------- claims C21 to C30

\* The live prepare of client p has just created the rows of its deltas.
PreparedRows(p) == proc[p].pc = "prepare_status" /\ ~proc[p].dry /\ proc[p].prep = "ok"

\* The Changesets of deployment d for the object a delta is about.
ChangesetsFor(d, delta) ==
  {cs \in 1..Len(changesets) :
     /\ changesets[cs].deployment_id = d
     /\ changesets[cs].object_type = delta.object_type
     /\ changesets[cs].object_name = delta.object_name}

\* C21: every Changeset has a source_ddl different from its target_ddl; a
\* Delta of an object with equal DDLs in source and target has empty script
\* lists, and prepare creates no Changeset and no Change for it.
C21_EqualDDLsMakeNoChangeset ==
  /\ \A cs \in 1..Len(changesets) : changesets[cs].source_ddl # changesets[cs].target_ddl
  /\ \A p \in Procs :
       PreparedRows(p) =>
         \A i \in 1..Len(proc[p].deltas) :
           LET delta == proc[p].deltas[i] IN
           delta.source_ddl = delta.target_ddl =>
             /\ delta.scripts = <<>> /\ delta.rollback_scripts = <<>>
             /\ ChangesetsFor(proc[p].deployment_id, delta) = {}

\* A prepare has found a Delta with equal DDLs next to one with different
\* DDLs, for which it has created a Changeset.
C21_Witness ==
  \E p \in Procs :
    /\ PreparedRows(p)
    /\ \E i, j \in 1..Len(proc[p].deltas) :
         /\ proc[p].deltas[i].source_ddl = proc[p].deltas[i].target_ddl
         /\ proc[p].deltas[j].source_ddl # proc[p].deltas[j].target_ddl
         /\ ChangesetsFor(proc[p].deployment_id, proc[p].deltas[j]) # {}

\* The prepare of client p, called alone or by run, has failed before it
\* created a Deployment: no connection ("connect_error"), or an error of its
\* inner block ("error"), a SchemaValidationError among them.
PrepareFailed(p) ==
  /\ proc[p].pc = "idle" /\ proc[p].op \in {"prepare", "run"}
  /\ proc[p].result \in {"connect_error", "error"}
  /\ proc[p].deployment_id = 0

\* C22: when prepare, alone or inside run, fails with a connection error or
\* a SchemaValidationError, the State Store is as it was at the call: no row
\* created, the Plan with the status it had.
C22_FailedPrepareLeavesStoreUnchanged ==
  \A p \in Procs : PrepareFailed(p) => store = Unwrap(proc[p].pre)

\* Two names are equal when the case of their letters is ignored.
EqualIgnoringCase(a, b) == Len(a) = Len(b) /\ \A i \in 1..Len(a) : Fold(a[i]) = Fold(b[i])

\* No connection has the name, whatever the case of its letters.
UnknownConnection(name) ==
  \A i \in 1..Len(connections) : ~EqualIgnoringCase(connections[i].name, name)

\* The create call of kind op of client p has returned; its arguments.
CreateReturned(p, op) == proc[p].pc = "idle" /\ proc[p].op = op
ArgsOf(p) == Unwrap(proc[p].args)

\* C23: every Plan has a source connection different from its target
\* connection and a schema list that is not empty; PlanService::create
\* called with one connection as source and target, with the name of no
\* connection, or with no schema fails and stores no Plan.
C23_CreatePlanValidatesItsArguments ==
  /\ \A i \in 1..Len(plans) :
       /\ plans[i].source_connection_id # plans[i].target_connection_id
       /\ plans[i].schemas # <<>>
  /\ \A p \in Procs :
       /\ CreateReturned(p, "create_plan")
       /\ \/ ArgsOf(p).source = ArgsOf(p).target
          \/ UnknownConnection(ArgsOf(p).source)
          \/ UnknownConnection(ArgsOf(p).target)
          \/ ArgsOf(p).schemas = <<>>
       => proc[p].result # "ok" /\ ~ArgsOf(p).stored

\* No two rows of a table have names that are equal ignoring case.
NamesDifferIgnoringCase(rows) ==
  \A i, j \in 1..Len(rows) : i # j => ~EqualIgnoringCase(rows[i].name, rows[j].name)

\* A row of the table has a name equal to name, ignoring case.
NameTaken(rows, name) == \E i \in 1..Len(rows) : EqualIgnoringCase(rows[i].name, name)

\* What the name check of a create call that has returned to client p must
\* have done, given the table at the call and the table now: a name taken
\* at the call is refused and nothing stored, and a name is refused only if
\* a row has it.
NameCheckOutcome(p, rows_at_call, rows) ==
  /\ NameTaken(rows_at_call, ArgsOf(p).name) => proc[p].result # "ok" /\ ~ArgsOf(p).stored
  /\ proc[p].result \in {"already exists", "DbErr"} => NameTaken(rows, ArgsOf(p).name)

\* C24: after any interleaving of create calls no two Plans and no two
\* Connections have names that are equal ignoring case; a create with a name
\* that equals an existing one ignoring case fails and stores nothing, and a
\* create with a name that differs from every existing one is not refused
\* for its name.
C24_NamesAreUniqueIgnoringCase ==
  /\ NamesDifferIgnoringCase(plans)
  /\ NamesDifferIgnoringCase(connections)
  /\ \A p \in Procs :
       /\ CreateReturned(p, "create_plan") =>
            NameCheckOutcome(p, Unwrap(proc[p].pre)[1], plans)
       /\ CreateReturned(p, "create_connection") =>
            NameCheckOutcome(p, Unwrap(proc[p].pre)[6], connections)

\* A forward script that drops an object or a column.
IsDrop(script) == script.op \in {"DROP", "DROPCOL"}

\* The table of the target has every column of the table of the source, each
\* as the source defines it, and at least one column more.
OnlyRemovedColumns(s, t) ==
  /\ IsSome(s) /\ IsSome(t)
  /\ LET sm == ColumnMap(Unwrap(s))
         tm == ColumnMap(Unwrap(t))
     IN /\ DOMAIN sm \subseteq DOMAIN tm /\ DOMAIN sm # DOMAIN tm
        /\ \A n \in DOMAIN sm : sm[n] = tm[n]

\* The prepare of client p, not a dry one, is over for a plan with
\* disable_all_drops, whether it found a delta or none.
PreparedWithoutDrops(p) ==
  /\ proc[p].pc = "prepare_status" /\ ~proc[p].dry /\ proc[p].prep \in {"ok", "none"}
  /\ plans[proc[p].plan_id].disable_all_drops

\* C25: for a Plan with disable_all_drops no Change of its deployments holds
\* a forward script that drops an object or a column and no such script is
\* executed by apply; prepare keeps no Delta for an object that is only in
\* the target nor a DROP COLUMN script, and creates no Changeset for a table
\* whose only difference is a column that the source no longer has.
C25_DisableAllDropsEmitsNoDrop ==
  /\ \A c \in 1..Len(changes) :
       PlanOf(DeploymentOf(c)).disable_all_drops => ~IsDrop(changes[c].script)
  /\ \A i \in 1..Len(execLog) :
       execLog[i].kind = "apply" /\ PlanOf(DeploymentOf(execLog[i].change)).disable_all_drops
         => ~IsDrop(changes[execLog[i].change].script)
  /\ \A p \in Procs :
       PreparedWithoutDrops(p) =>
         LET plan == plans[proc[p].plan_id] IN
         /\ \A i \in 1..Len(proc[p].deltas) :
              /\ IsSome(proc[p].deltas[i].source_ddl)
              /\ \A k \in 1..Len(proc[p].deltas[i].scripts) : ~IsDrop(proc[p].deltas[i].scripts[k])
         /\ OnlyRemovedColumns(db[plan.source_connection_id][TableKey],
                               db[plan.target_connection_id][TableKey])
              => /\ \A i \in 1..Len(proc[p].deltas) : proc[p].deltas[i].object_type # "TABLE"
                 /\ proc[p].prep = "ok" =>
                      \A cs \in 1..Len(changesets) :
                        changesets[cs].deployment_id = proc[p].deployment_id
                          => changesets[cs].object_type # "TABLE"

\* A prepare for a plan with disable_all_drops has created rows although the
\* target has a column the source no longer has and a view the source does
\* not have at all, or a view the source has differently.
C25_Witness ==
  \E p \in Procs :
    /\ PreparedWithoutDrops(p) /\ proc[p].prep = "ok"
    /\ LET plan == plans[proc[p].plan_id] IN
       /\ OnlyRemovedColumns(db[plan.source_connection_id][TableKey],
                             db[plan.target_connection_id][TableKey])
       /\ IsSome(db[plan.target_connection_id][ViewKey])
    /\ \E c \in 1..Len(changes) : DeploymentOf(c) = proc[p].deployment_id

\* The precedence of an object type.
TypePrecedence(object_type) ==
  CASE object_type = "TABLE" -> 100
    [] object_type = "SEQUENCE" -> 200
    [] object_type = "VIEW" -> 300
    [] object_type = "PACKAGE" -> 400
    [] object_type = "PACKAGE BODY" -> 500
    [] object_type = "PROCEDURE" -> 600
    [] object_type = "FUNCTION" -> 700
    [] object_type = "INDEX" -> 800
    [] object_type = "TRIGGER" -> 900
    [] OTHER -> 1000

\* The precedence of a Changeset, negated for a DROP (no source_ddl) only.
DropNegatedPrecedence(cs) ==
  TypePrecedence(cs.object_type) * (IF cs.source_ddl = None THEN -1 ELSE 1)

ChangesetOfRun(i) == changesets[changes[execLog[i].change].changeset_id]

\* Two forward scripts of the same deployment, the first executed before the
\* second.
AppliedInOrder(i, j) ==
  /\ i < j /\ execLog[i].kind = "apply" /\ execLog[j].kind = "apply"
  /\ DeploymentOf(execLog[i].change) = DeploymentOf(execLog[j].change)

\* C26: apply processes the Changesets of a Deployment in ascending order of
\* the precedence of their object type, negated for the Changesets that are
\* a DROP (source_ddl null) and for no other.
C26_ApplyOrderNegatesDropsOnly ==
  \A i, j \in 1..Len(execLog) :
    AppliedInOrder(i, j) =>
      DropNegatedPrecedence(ChangesetOfRun(i)) <= DropNegatedPrecedence(ChangesetOfRun(j))

\* The rollback call of client p has prepared its Rollback rows and is about
\* to move the Plan, then the Deployment, to ROLLING_BACK; it has executed
\* no rollback script yet.
AboutToRollBack(p) == proc[p].pc \in {"rb_set_plan", "rb_set_dep"}

\* The Rollback rows of Change c.
RollbacksOfChange(c) == {r \in 1..Len(rollbacks) : rollbacks[r].change_id = c}

\* C27: when a rollback is about to move Plan and Deployment to ROLLING_BACK,
\* before it executes its first rollback script, every Change of the
\* Deployment has exactly one Rollback row, of status IDLE and with the
\* rollback_script of the Change as its script.
C27_OneIdleRollbackPerChange ==
  \A p \in Procs :
    AboutToRollBack(p) =>
      \A c \in 1..Len(changes) :
        DeploymentOf(c) = proc[p].deployment_id =>
          /\ Cardinality(RollbacksOfChange(c)) = 1
          /\ \A r \in RollbacksOfChange(c) :
               rollbacks[r].status = "IDLE" /\ rollbacks[r].script = changes[c].rollback_script

\* Row i of a table moves into status s in this step.
Enters(rows, rows_after, i, s) == rows[i].status # s /\ rows_after[i].status = s

\* What a step may do to the stamps of row i: moving into RUNNING stamps
\* started_at if it was unset and keeps it otherwise; moving into a terminal
\* status stamps ended_at.
StampsKept(rows, rows_after, i) ==
  /\ Enters(rows, rows_after, i, "RUNNING") =>
       IF rows[i].started_at = None THEN rows_after[i].started_at # None
       ELSE rows_after[i].started_at = rows[i].started_at
  /\ \A s \in TerminalStatuses : Enters(rows, rows_after, i, s) => rows_after[i].ended_at

\* C28: for Deployment, Changeset and Change alike, a transition into RUNNING
\* sets started_at only when it was unset, and every transition into a
\* terminal status (SUCCESS, ERROR, ROLLED_BACK, ROLLBACK_ERROR) sets ended_at.
C28_StampsFollowTransitions ==
  [][/\ \A i \in 1..Len(deployments) : StampsKept(deployments, deployments', i)
     /\ \A i \in 1..Len(changesets) : StampsKept(changesets, changesets', i)
     /\ \A i \in 1..Len(changes) : StampsKept(changes, changes', i)]_vars

\* The prepare or run of client p has returned without an error: Ok(Some(id))
\* ("ok") or Ok(None) ("none").
ReturnedOk(p) ==
  /\ proc[p].pc = "idle" /\ proc[p].op \in {"prepare", "run"}
  /\ proc[p].result \in {"ok", "none"}

\* The Deployment rows created since the call of client p began.
DeploymentsSinceCall(p) == {d \in 1..Len(deployments) : d > Len(DeploymentsAtCall(p))}

\* C29: a prepare or run that returns without error returns none only in dry
\* mode; not dry, it returns the id of the one Deployment it created, and the
\* Deployment a run created has been applied and is SUCCESS or ERROR, also
\* when the diff found no delta.
C29_PrepareReturnsItsDeployment ==
  \A p \in Procs :
    ReturnedOk(p) =>
      /\ proc[p].result = "none" => proc[p].dry
      /\ ~proc[p].dry =>
           /\ DeploymentsSinceCall(p) = {proc[p].deployment_id}
           /\ proc[p].op = "run" =>
                \A d \in DeploymentsSinceCall(p) : deployments[d].status \in {"SUCCESS", "ERROR"}

\* The prepare of client p, not dry, for a plan with no drop disabled has
\* diffed the catalogs: its deltas are find_deltas(S, T) as it stands, none
\* when prepare found the list empty.
Diffed(p) ==
  /\ proc[p].pc = "prepare_status" /\ ~proc[p].dry /\ proc[p].prep \in {"ok", "none"}
  /\ NoDropDisabled(plans[proc[p].plan_id])
DiffOf(p) == IF proc[p].prep = "ok" THEN proc[p].deltas ELSE <<>>

\* The Deltas of a list that are about key k.
DeltasAbout(deltas, k) ==
  {i \in 1..Len(deltas) : deltas[i].object_type = k.object_type /\ deltas[i].object_name = k.object_name}

\* What find_deltas is to return for key k, with s and t the DDL the key has
\* in source and target (None where the key is absent).
DeltaAsStated(delta, k, s, t) ==
  LET drop == [op |-> "DROP", object_type |-> k.object_type, object_name |-> k.object_name,
               col |-> "", def |-> "", ddl |-> None]
      create(ddl) == [op |-> "DDL", object_type |-> k.object_type, object_name |-> k.object_name,
                      col |-> "", def |-> "", ddl |-> ddl]
  IN IF ~IsSome(t) THEN
       /\ delta.scripts = <<create(s)>> /\ delta.rollback_scripts = <<drop>>
       /\ delta.source_ddl = s /\ delta.target_ddl = None
     ELSE IF ~IsSome(s) THEN
       /\ delta.scripts = <<drop>> /\ delta.rollback_scripts = <<create(t)>>
       /\ delta.source_ddl = None /\ delta.target_ddl = t
     ELSE
       /\ delta.source_ddl = s /\ delta.target_ddl = t
       /\ k.object_type # "TABLE" /\ s # t =>
            delta.scripts = <<create(s)>> /\ delta.rollback_scripts = <<create(t)>>
       /\ s = t => delta.scripts = <<>> /\ delta.rollback_scripts = <<>>

\* C30: find_deltas(S, T) returns exactly one Delta for every key of S or T
\* and none for any other: for a key only in S the DDL forward and the DROP
\* back, no target_ddl; for a key only in T the DROP forward and the DDL
\* back, no source_ddl; for a key in both the update diff, which for a type
\* other than TABLE with different DDL is the source DDL forward and the
\* target DDL back; no Delta when S and T are empty.
C30_FindDeltasOnePerKey ==
  \A p \in Procs :
    Diffed(p) =>
      LET plan == plans[proc[p].plan_id]
          S == db[plan.source_connection_id]
          T == db[plan.target_connection_id]
      IN \A k \in Keys :
           IF IsSome(S[k]) \/ IsSome(T[k])
           THEN /\ Cardinality(DeltasAbout(DiffOf(p), k)) = 1
                /\ \A i \in DeltasAbout(DiffOf(p), k) : DeltaAsStated(DiffOf(p)[i], k, S[k], T[k])
           ELSE DeltasAbout(DiffOf(p), k) = {}

\* A diff of a view that only the target has and a table that both have
\* with different DDL.
C30_Witness ==
  \E p \in Procs :
    /\ Diffed(p) /\ proc[p].prep = "ok"
    /\ LET plan == plans[proc[p].plan_id]
           S == db[plan.source_connection_id]
           T == db[plan.target_connection_id]
       IN /\ ~IsSome(S[ViewKey]) /\ IsSome(T[ViewKey])
          /\ IsSome(S[TableKey]) /\ IsSome(T[TableKey]) /\ S[TableKey] # T[TableKey]


\* ------------------------------------------------------ claims C31 to C40

\* The client has diffed the two tables it was given.
ScriptsFound(p) == proc[p].pc = "exclude"

\* The names of the columns a table DDL lists, and the definition of one.
ColsOf(ddl) == {ddl.cols[i].name : i \in 1..Len(ddl.cols)}
DefOf(ddl, n) == (CHOOSE c \in Range(ddl.cols) : c.name = n).def

AlterScript(op, n, def) ==
  [op |-> op, object_type |-> "TABLE", object_name |-> TableKey.object_name,
   col |-> n, def |-> def, ddl |-> None]

\* scripts is the update diff of table s against table t as stated: a block
\* with one ADD per column only in s, then a block with one DROP COLUMN per
\* column only in t, then a block with one MODIFY, to the definition in s,
\* per column of both that they define differently; names compared as
\* they are written.
UpdateScriptsAsStated(scripts, s, t) ==
  LET A == ColsOf(s) \ ColsOf(t)
      D == ColsOf(t) \ ColsOf(s)
      M == {n \in ColsOf(s) \cap ColsOf(t) : DefOf(s, n) # DefOf(t, n)}
      na == Cardinality(A)
      nd == Cardinality(D)
      nm == Cardinality(M)
  IN /\ Len(scripts) = na + nd + nm
     /\ {scripts[i] : i \in 1..na} = {AlterScript("ADD", n, DefOf(s, n)) : n \in A}
     /\ {scripts[i] : i \in (na + 1)..(na + nd)} = {AlterScript("DROPCOL", n, "") : n \in D}
     /\ {scripts[i] : i \in (na + nd + 1)..(na + nd + nm)} = {AlterScript("MODIFY", n, DefOf(s, n)) : n \in M}

Excluded(p) == proc[p].pc = "idle" /\ proc[p].op = "exclude"

\* The upper-case text of the script contains "DROP " followed by the
\* upper-case of one of the tokens.
IsDisabledDrop(script, tokens) ==
  \E i \in 1..Len(tokens) :
    LET token == to_uppercase(tokens[i]) IN
    \/ script.op = "DROP" /\ script.object_type = token
    \/ script.op = "DROPCOL" /\ token = "COLUMN"

\* The forward scripts of a Delta that the tokens leave, in their order.
ScriptsLeft(delta, tokens) == SelectSeq(delta.scripts, LAMBDA x : ~IsDisabledDrop(x, tokens))

\* A Delta is discarded when it had forward scripts and all were removed.
Discarded(delta, tokens) == delta.scripts # <<>> /\ ScriptsLeft(delta, tokens) = <<>>

RECURSIVE ExcludedAsStated(_, _)
ExcludedAsStated(deltas, tokens) ==
  IF deltas = <<>> THEN <<>>
  ELSE (IF Discarded(Head(deltas), tokens) THEN <<>>
        ELSE <<[Head(deltas) EXCEPT !.scripts = ScriptsLeft(Head(deltas), tokens)]>>)
       \o ExcludedAsStated(Tail(deltas), tokens)

\* C32: with_disabled_drop_types_excluded removes from each Delta exactly the
\* forward scripts that contain "DROP " and a disabled token, keeps the
\* others in their order and the rollback scripts as they are, discards a
\* Delta exactly when all its forward scripts were removed, returns its input
\* for an absent or empty token list, and is idempotent.
C32_ExcludesDisabledDropsOnly ==
  \A p \in Procs :
    Excluded(p) =>
      LET a == Unwrap(proc[p].args)
          tokens == IF IsSome(a.tokens) THEN Unwrap(a.tokens) ELSE <<>>
      IN /\ a.result = ExcludedAsStated(a.deltas, tokens)
         /\ tokens = <<>> => a.result = a.deltas
         /\ with_disabled_drop_types_excluded(a.result, a.tokens) = a.result

\* The Changes of deployment d that are RUNNING.
RunningChanges(d) == {c \in ChangesOfDeployment(d) : changes[c].status = "RUNNING"}

\* Change c moves to RUNNING in this step.
ChangeStarts(c) == changes[c].status # "RUNNING" /\ changes'[c].status = "RUNNING"

\* Every Change that apply executes before Change c is stored as SUCCESS or
\* ERROR.
EarlierChangesStored(c) ==
  LET order == ApplyOrder(DeploymentOf(c)) IN
  \A k \in 1..Len(order) :
    k < PositionIn(order, c) => changes[order[k]].status \in {"SUCCESS", "ERROR"}

\* C33: at most one Change of a Deployment is RUNNING at any time, and a
\* Change moves to RUNNING only when every Change before it in apply order
\* is stored as SUCCESS or ERROR.
C33_ChangesRunOneAfterAnother ==
  [][/\ \A d \in 1..Len(deployments') : Cardinality(RunningChanges(d)') <= 1
     /\ \A c \in 1..Len(changes) : ChangeStarts(c) => EarlierChangesStored(c)]_vars


\* The executions of the rollback script of Change c on the target.
RollbackExecutions(c) ==
  {i \in 1..Len(execLog) : execLog[i].kind = "rollback" /\ execLog[i].change = c}

\* C34: over any sequence of rollback calls on a plan, a retry after a failed
\* attempt included, every Change has at most one Rollback row and its
\* rollback script is executed on the target at most once.
C34_OneRollbackPerChange ==
  \A c \in 1..Len(changes) :
    /\ Cardinality(RollbacksOfChange(c)) <= 1
    /\ Cardinality(RollbackExecutions(c)) <= 1

\* The executions of the forward script of Change c on the target.
ApplyExecutions(c) ==
  {i \in 1..Len(execLog) : execLog[i].kind = "apply" /\ execLog[i].change = c}

\* C35: over any sequence of run, prepare, apply and rollback calls, the
\* forward script of a Change is executed on the target at most once; an
\* apply on a Deployment that is not IDLE executes no script.
C35_ForwardScriptRunsOnce ==
  \A c \in 1..Len(changes) : Cardinality(ApplyExecutions(c)) <= 1

\* The Changesets of Deployment d.
ChangesetsOfDeployment(d) == {s \in 1..Len(changesets) : changesets[s].deployment_id = d}

\* C36: a Deployment with status SUCCESS has every one of its Changesets and
\* every one of its Changes in status SUCCESS.
C36_SuccessMeansAllSucceeded ==
  \A d \in 1..Len(deployments) :
    deployments[d].status = "SUCCESS" =>
      /\ \A s \in ChangesetsOfDeployment(d) : changesets[s].status = "SUCCESS"
      /\ \A c \in ChangesOfDeployment(d) : changes[c].status = "SUCCESS"

\* The rollback call of client p has returned, with Ok or with an error.
RollbackReturned(p) ==
  proc[p].pc = "idle" /\ proc[p].op = "rollback" /\ proc[p].result # "crashed"

\* The call that client p has returned from executed a rollback script, which
\* it does only after it moved Plan and Deployment to ROLLING_BACK.
MovedToRollingBack(p) ==
  \E i \in (proc[p].log_at + 1)..Len(execLog) : execLog[i].kind = "rollback"

RollbackOutcomes == {"ROLLED_BACK", "ROLLBACK_ERROR"}

\* C37: when a rollback call that moved the Plan and the Deployment to
\* ROLLING_BACK has returned, with Ok or with any error, both are ROLLED_BACK
\* or ROLLBACK_ERROR.
C37_ReturnedRollbackLeavesOutcome ==
  \A p \in Procs :
    RollbackReturned(p) /\ MovedToRollingBack(p) =>
      /\ plans[proc[p].plan_id].status \in RollbackOutcomes
      /\ deployments[proc[p].deployment_id].status \in RollbackOutcomes

\* The run of client p has prepared its Deployment and enters apply.
ReachesApply(p) == proc[p].op = "run" /\ proc[p].pc = "apply_validate"

\* The run of client p has returned after it had reached apply.
RunReturnedFromApply(p) ==
  /\ proc[p].pc = "idle" /\ proc[p].op = "run"
  /\ proc[p].deployment_id # 0
  /\ proc[p].result \notin {"none", "crashed"}

\* Plan and Deployment of the run of client p are SUCCESS or ERROR.
RunOutcomeStored(p) ==
  /\ plans[proc[p].plan_id].status \in {"SUCCESS", "ERROR"}
  /\ deployments[proc[p].deployment_id].status \in {"SUCCESS", "ERROR"}

\* C38: when store and SQL client always answer and the process is not
\* cancelled, every run that reaches apply returns, and whenever such a run
\* has returned the Plan is SUCCESS or ERROR (never RUNNING) and the
\* Deployment is SUCCESS or ERROR.
C38_RunTerminatesWithOutcome ==
  /\ \A p \in Procs : ReachesApply(p) ~> RunReturnedFromApply(p)
  /\ [](\A p \in Procs : RunReturnedFromApply(p) => RunOutcomeStored(p))

\* A run has returned DeployError after a rejected statement, having gone on
\* to execute a later Change with success.
C38_Witness ==
  \E p \in Procs :
    /\ RunReturnedFromApply(p) /\ proc[p].result = "DeployError"
    /\ \E c \in ChangesOfDeployment(proc[p].deployment_id) : changes[c].status = "SUCCESS"

\* Plan i moves into the given status in this step.
PlanEnters(i, status) == plans[i].status # status /\ plans'[i].status = status

\* C39: while a Plan is ROLLING_BACK no Plan that shares one of its
\* connections enters RUNNING, and no Plan enters ROLLING_BACK while it, or
\* another Plan that uses its target connection, is RUNNING.
C39_ApplyAndRollbackExcludeEachOther ==
  [][\A i, j \in DOMAIN plans :
       /\ PlanEnters(i, "RUNNING") /\ plans[j].status = "ROLLING_BACK"
            => Connections(i) \cap Connections(j) = {}
       /\ PlanEnters(j, "ROLLING_BACK") /\ plans[i].status = "RUNNING"
            => plans[j].target_connection_id \notin Connections(i)]_vars

\* The Deployment of Plan i created last, or none.
LatestDeployment(i) ==
  LET S == {d \in 1..Len(deployments) : deployments[d].plan_id = i}
  IN IF S = {} THEN None ELSE Some(CHOOSE d \in S : \A e \in S : e <= d)

\* C40: a Plan has status SUCCESS only if its most recently created
\* Deployment exists and has status SUCCESS.
C40_PlanSuccessMeansDeploymentSuccess ==
  \A i \in DOMAIN plans :
    plans[i].status = "SUCCESS" =>
      /\ IsSome(LatestDeployment(i))
      /\ deployments[Unwrap(LatestDeployment(i))].status = "SUCCESS"

========================================================================
